---- MODULE Spec2Model ----
(***************************************************************************)
(* A model of the Pith interpreter (cheeze36/pith_lang): the tree-walking  *)
(* evaluator of src/interpreter.c over the heap and the mark-and-sweep     *)
(* collector of src/gc.c.  A program is an AST (src/parser.h); one step of *)
(* the state machine executes one top-level statement, as the loop of      *)
(* interpret() does.  eval, exec and exec_block are recursive operators    *)
(* that thread the interpreter state through exactly as the C code does.   *)
(***************************************************************************)
EXTENDS Integers, Sequences, FiniteSets, TLC

(***************************************************************************)
(* Bounds of the model.                                                    *)
(***************************************************************************)
\* largest trip count of the loops in the generated programs
MaxLoopN == 2
\* loop iterations one statement may run before the model stops it
MaxIters == 8
\* in SpecGC the collection falls on one of the first MaxSlack+1 allocations
MaxSlack == 9

(***************************************************************************)
(* Program constants.                                                      *)
(***************************************************************************)
\* sizeof of the heap structs of src/value.h on an LP64 build
SizeofEnv == 48
SizeofList == 40
SizeofHashMap == 40
SizeofFunc == 48
SizeofModule == 32
SizeofPithClass == 56
SizeofPithInstance == 32
SizeofBoundMethod == 48
\* gc.c:26 and gc.c:432: the initial and the minimum collection threshold
MinThreshold == 1048576
\* gc.c:20
MAX_TEMP_ROOTS == 256

(***************************************************************************)
(* Values (struct Value, src/value.h).  A value is a tag and a payload;    *)
(* int_val also carries a bool, obj is the pointer of the heap variants    *)
(* (0 is NULL), str_val the characters of a string or the name of a native *)
(* function, buf the address of the malloc'd buffer that str_val points to *)
(* (0 while the characters are given without a buffer).                    *)
(***************************************************************************)
Val(t, i, str, o) ==
    [type |-> t, int_val |-> i, str_val |-> str, obj |-> o, buf |-> 0]
VoidV == Val("VAL_VOID", 0, "", 0)
BreakV == Val("VAL_BREAK", 0, "", 0)
ContinueV == Val("VAL_CONTINUE", 0, "", 0)
IntV(n) == Val("VAL_INT", n, "", 0)
BoolV(b) == Val("VAL_BOOL", IF b THEN 1 ELSE 0, "", 0)
StrV(str) == Val("VAL_STRING", 0, str, 0)
NativeV(fn) == Val("VAL_NATIVE_FN", 0, fn, 0)
ObjV(t, o) == Val(t, 0, "", o)

\* the value tags whose payload is a pointer to a heap object (mark_value)
HeapValTypes == {"VAL_LIST", "VAL_HASHMAP", "VAL_FUNC", "VAL_MODULE",
                 "VAL_CLASS", "VAL_INSTANCE", "VAL_BOUND_METHOD"}


(***************************************************************************)
(* AST nodes (struct ASTNode, src/parser.h).  value is the identifier,     *)
(* operator or literal text; num is what atoi gives for an integer         *)
(* literal's text; type_name is the written type, token by token.          *)
(***************************************************************************)
Node(t, v, n, ch, ar, ln) ==
    [type |-> t, value |-> v, num |-> n, children |-> ch, args |-> ar, line |-> ln,
     type_name |-> <<>>, parent_class_name |-> ""]
NullNode == Node("NULL", "", 0, <<>>, <<>>, 0)

(***************************************************************************)
(* The interpreter state threaded through the operators.                   *)
(*   heap      every object ever allocated, by address (1, 2, ...); the    *)
(*             record of a freed object keeps its last contents            *)
(*   objects   the intrusive list `objects` of gc.c, head first            *)
(*   garbage   unreferenced List objects on that list that the model does  *)
(*             not follow one by one (earlier list literals)               *)
(*   live_lists  List objects on that list that are items of a list bound  *)
(*             globally, and that the model does not follow one by one     *)
(*   str_frees for every string buffer ever allocated, by address, how     *)
(*             many times free() was called on it                          *)
(*   files     the programs of the files that read_file_content finds, by  *)
(*             module name (an input of the run)                           *)
(*   junk      what an uninitialised pointer field holds                   *)
(*   ub_crash  whether a use of freed memory or of an uninitialised        *)
(*             pointer faults (TRUE) or goes on with what is there (FALSE) *)
(*   depth     how many user-function calls are running                    *)
(*   body_freed  the functions whose body is a node of a tree that         *)
(*             free_ast has freed                                          *)
(*   held      the objects that only locals of the running C functions     *)
(*             refer to, innermost last, with what each one is             *)
(* Fields after `depth` are observations about the run, not program state. *)
(***************************************************************************)
EmptyState ==
    [heap |-> <<>>, objects |-> <<>>, garbage |-> 0, live_lists |-> 0,
     bytes_allocated |-> 0, next_gc_threshold |-> MinThreshold,
     temp_roots |-> <<>>, global_env |-> 0,
     native_string_methods |-> 0, native_list_methods |-> 0,
     native_module_funcs |-> 0, last_defined_class |-> 0,
     output |-> <<>>, halted |-> FALSE, errors |-> <<>>,
     str_frees |-> <<>>, files |-> <<>>,
     junk |-> 0, ub_crash |-> FALSE, held |-> <<>>, iters |-> 0, depth |-> 0,
     trace |-> <<>>, calls |-> <<>>, rets |-> <<>>, news |-> <<>>, writes |-> <<>>, class_decls |-> <<>>,
     func_decls |-> <<>>, blocks |-> <<>>, decls |-> <<>>, imports |-> <<>>,
     assigns |-> <<>>, reads |-> <<>>, inserts |-> <<>>, appends |-> <<>>, stores |-> <<>>,
     construction_freed |-> FALSE, frames_freed |-> {}, body_freed |-> {},
     swept_reachable |-> FALSE, gc_count |-> 0, last_freed |-> <<>>,
     allocs |-> <<>>, collections |-> <<>>]

\* the result of eval / exec_block, and of exec (which may move *env_ptr)
R(v, s) == [v |-> v, s |-> s]
RE(v, env, s) == [v |-> v, env |-> env, s |-> s]

\* a local variable assigned once: Let([x \in {e} |-> body]) is body with x
\* the value of e, e evaluated once however often body uses x
Let(F) == F[CHOOSE x \in DOMAIN F : TRUE]

\* report_error with the default reporter: print and exit(1)
report_error(s, line, msg) ==
    IF s.halted THEN s
    ELSE [s EXCEPT !.halted = TRUE, !.errors = Append(@, [line |-> line, msg |-> msg])]

SeqToSet(q) == {q[i] : i \in DOMAIN q}

\* strdup, or malloc and strcpy: a string value in a buffer of its own
strdup(s, str) ==
    R([StrV(str) EXCEPT !.buf = Len(s.str_frees) + 1],
      [s EXCEPT !.str_frees = Append(@, 0)])

\* value_copy: a string is duplicated (same characters, a new buffer), every
\* other value is returned as it is
value_copy(s, v) == IF v.type = "VAL_STRING" THEN strdup(s, v.str_val) ELSE R(v, s)

\* a local of the running C code starts / stops referring to object id
Hold(s, id, kind) == [s EXCEPT !.held = Append(@, [id |-> id, kind |-> kind])]
Unhold(s, depth) == [s EXCEPT !.held = SubSeq(@, 1, depth)]

(***************************************************************************)
(* The collector, src/gc.c.                                                *)
(***************************************************************************)
RECURSIVE mark_object(_, _)
RECURSIVE mark_values(_, _)

\* gc_push_root / gc_pop_root
gc_push_root(s, obj) ==
    IF Len(s.temp_roots) >= MAX_TEMP_ROOTS
    THEN [s EXCEPT !.halted = TRUE]
    ELSE [s EXCEPT !.temp_roots = Append(@, obj)]

gc_pop_root(s) ==
    IF Len(s.temp_roots) > 0
    THEN [s EXCEPT !.temp_roots = SubSeq(@, 1, Len(@) - 1)]
    ELSE [s EXCEPT !.halted = TRUE]

mark_value(h, v) == IF v.type \in HeapValTypes THEN mark_object(h, v.obj) ELSE h

mark_values(h, vs) ==
    IF vs = <<>> THEN h ELSE mark_values(mark_value(h, Head(vs)), Tail(vs))

\* mark_object: NULL and marked objects are left alone; otherwise the object
\* is marked and then what it refers to, by type.  (An address that is no
\* object at all, which only an uninitialised field can hold, is skipped.)
mark_object(h, id) ==
    IF id = 0 \/ id \notin DOMAIN h THEN h
    ELSE IF h[id].is_marked = 1 THEN h
    ELSE LET h1 == [h EXCEPT ![id].is_marked = 1]
             o == h[id]
         IN CASE o.type = "OBJ_LIST" -> mark_values(h1, SubSeq(o.items, 1, o.count))
              [] o.type = "OBJ_MAP" ->
                    mark_values(h1, [i \in 1..Len(o.entries) |-> o.entries[i].value])
              [] o.type = "OBJ_FUNC" -> mark_object(h1, o.env)
              [] o.type = "OBJ_MODULE" -> mark_object(h1, o.members)
              [] o.type = "OBJ_CLASS" ->
                    LET h2 == mark_object(h1, o.methods)
                    IN IF o.parent # 0 THEN mark_object(h2, o.parent) ELSE h2
              [] o.type = "OBJ_INSTANCE" ->
                    mark_object(mark_object(h1, o.pith_class), o.fields)
              [] o.type = "OBJ_BOUND_METHOD" ->
                    mark_value(mark_value(h1, o.receiver), o.method)
              [] o.type = "OBJ_ENV" -> mark_object(mark_value(h1, o.val), o.next)
              [] OTHER -> h1

RECURSIVE mark_temp_roots(_, _, _)
mark_temp_roots(h, roots, i) ==
    IF i > Len(roots) THEN h ELSE mark_temp_roots(mark_object(h, roots[i]), roots, i + 1)

\* mark_roots: the global environment, the three registries, the temporary roots
mark_roots(s) ==
    LET h1 == mark_object(s.heap, s.global_env)
        h2 == mark_object(h1, s.native_string_methods)
        h3 == mark_object(h2, s.native_list_methods)
        h4 == mark_object(h3, s.native_module_funcs)
    IN [s EXCEPT !.heap = mark_temp_roots(h4, s.temp_roots, 1)]

\* the sizeof that sweep subtracts for an object of each type
SizeOfType(t) ==
    CASE t = "OBJ_LIST" -> SizeofList
      [] t = "OBJ_MAP" -> SizeofHashMap
      [] t = "OBJ_FUNC" -> SizeofFunc
      [] t = "OBJ_MODULE" -> SizeofModule
      [] t = "OBJ_CLASS" -> SizeofPithClass
      [] t = "OBJ_ENV" -> SizeofEnv
      [] t = "OBJ_INSTANCE" -> SizeofPithInstance
      [] t = "OBJ_BOUND_METHOD" -> SizeofBoundMethod

RECURSIVE SumSizes(_, _)
SumSizes(h, ids) ==
    IF ids = <<>> THEN 0 ELSE SizeOfType(h[Head(ids)].type) + SumSizes(h, Tail(ids))

\* the values of an object that sweep hands to free_value_content
OwnedValues(o) ==
    CASE o.type = "OBJ_LIST" -> SubSeq(o.items, 1, o.count)
      [] o.type = "OBJ_MAP" -> [i \in DOMAIN o.entries |-> o.entries[i].value]
      [] o.type = "OBJ_ENV" -> <<o.val>>
      [] o.type = "OBJ_BOUND_METHOD" -> <<o.receiver, o.method>>
      [] OTHER -> <<>>

\* free_value_content on each of vals: free() on the buffer of every string
RECURSIVE free_values(_, _)
free_values(frees, vals) ==
    IF vals = <<>> THEN frees
    ELSE LET v == Head(vals)
         IN free_values(IF v.type = "VAL_STRING" /\ v.buf # 0
                        THEN [frees EXCEPT ![v.buf] = @ + 1] ELSE frees,
                        Tail(vals))

\* the free_value_content calls of sweep over the unmarked objects ids
RECURSIVE free_contents(_, _, _)
free_contents(h, frees, ids) ==
    IF ids = <<>> THEN frees
    ELSE free_contents(h, free_values(frees, OwnedValues(h[Head(ids)])), Tail(ids))

\* a walk of the list that, after it unlinks an unmarked object, steps over
\* the object that follows it: that one stays as it is.  The result is
\* the objects kept (the unexamined ones in `skipped` too) and freed.
RECURSIVE sweep_walk_Skips(_, _, _)
sweep_walk_Skips(h, ids, acc) ==
    IF ids = <<>> THEN acc
    ELSE IF h[Head(ids)].is_marked = 1
    THEN sweep_walk_Skips(h, Tail(ids), [acc EXCEPT !.kept = Append(@, Head(ids))])
    ELSE IF Len(ids) = 1 THEN [acc EXCEPT !.freed = Append(@, Head(ids))]
    ELSE sweep_walk_Skips(h, Tail(Tail(ids)),
            [acc EXCEPT !.freed = Append(@, Head(ids)),
                        !.kept = Append(@, ids[2]),
                        !.skipped = @ \cup {ids[2]}])

\* a sweep whose walk steps over the object after each one it frees
sweep_SkipsAfterFree(s) ==
    LET w == sweep_walk_Skips(s.heap, s.objects,
                              [kept |-> <<>>, freed |-> <<>>, skipped |-> {}])
        frees == free_contents(s.heap, s.str_frees, w.freed)
    IN [s EXCEPT
          !.str_frees = frees,
          !.heap = [id \in DOMAIN s.heap |->
                      IF id \in SeqToSet(w.kept) \ w.skipped
                      THEN [s.heap[id] EXCEPT !.is_marked = 0]
                      ELSE s.heap[id]],
          !.objects = w.kept,
          !.garbage = 0,
          !.bytes_allocated = @ - SumSizes(s.heap, w.freed) - s.garbage * SizeofList,
          !.last_freed = w.freed]

\* a sweep that leaves the size of the Env objects it frees in
\* bytes_allocated
sweep_EnvUncounted(s) ==
    LET kept == SelectSeq(s.objects, LAMBDA id : s.heap[id].is_marked = 1)
        freed == SelectSeq(s.objects, LAMBDA id : s.heap[id].is_marked # 1)
        keptSet == SeqToSet(kept)
        frees == free_contents(s.heap, s.str_frees, freed)
        \* memory the running code still uses is freed, free() is handed the
        \* uninitialised `fields` pointer of a class, or a buffer is freed twice
        undefined ==
            \/ \E i \in DOMAIN s.held : s.held[i].id # 0 /\ s.held[i].id \notin keptSet
            \/ \E i \in DOMAIN freed :
                  s.heap[freed[i]].type = "OBJ_CLASS" /\ s.heap[freed[i]].fields_ptr # 0
            \/ \E b \in DOMAIN frees : frees[b] > 1 /\ frees[b] > s.str_frees[b]
    IN [s EXCEPT
          !.halted = @ \/ (undefined /\ s.ub_crash),
          !.str_frees = frees,
          !.heap = [id \in DOMAIN s.heap |->
                      IF id \in keptSet THEN [s.heap[id] EXCEPT !.is_marked = 0]
                      ELSE s.heap[id]],
          !.objects = kept,
          !.garbage = 0,
          !.bytes_allocated = @ - s.garbage * SizeofList
              - SumSizes(s.heap, SelectSeq(freed,
                             LAMBDA id : s.heap[id].type # "OBJ_ENV")),
          !.last_freed = freed,
          !.construction_freed =
              @ \/ (\E i \in DOMAIN s.held :
                        /\ s.held[i].kind \in {"instance", "module"}
                        /\ s.held[i].id \notin keptSet)]

\* the bindings of the calls that have not returned: the chains from arg_env
\* and from the block_env of every block entered since the oldest running
\* call began (observation)
RECURSIVE EnvChain(_, _)
EnvChain(h, env) == IF env = 0 THEN {} ELSE {env} \cup EnvChain(h, h[env].next)

CallBindings(s) ==
    LET frames == {i \in DOMAIN s.held : s.held[i].kind = "frame"}
    IN UNION {EnvChain(s.heap, s.held[i].id) :
                i \in {j \in DOMAIN s.held :
                         /\ s.held[j].kind \in {"frame", "scope"}
                         /\ \E f \in frames : f <= j}}

\* sweep: unmarked objects leave the list and their size leaves
\* bytes_allocated; marked objects stay and have their mark cleared
sweep(s) ==
    LET kept == SelectSeq(s.objects, LAMBDA id : s.heap[id].is_marked = 1)
        freed == SelectSeq(s.objects, LAMBDA id : s.heap[id].is_marked # 1)
        keptSet == SeqToSet(kept)
        frees == free_contents(s.heap, s.str_frees, freed)
        \* memory the running code still uses is freed, free() is handed the
        \* uninitialised `fields` pointer of a class, or a buffer is freed twice
        undefined ==
            \/ \E i \in DOMAIN s.held : s.held[i].id # 0 /\ s.held[i].id \notin keptSet
            \/ \E i \in DOMAIN freed :
                  s.heap[freed[i]].type = "OBJ_CLASS" /\ s.heap[freed[i]].fields_ptr # 0
            \/ \E b \in DOMAIN frees : frees[b] > 1 /\ frees[b] > s.str_frees[b]
    IN [s EXCEPT
          !.halted = @ \/ (undefined /\ s.ub_crash),
          !.str_frees = frees,
          !.heap = [id \in DOMAIN s.heap |->
                      IF id \in keptSet THEN [s.heap[id] EXCEPT !.is_marked = 0]
                      ELSE s.heap[id]],
          !.objects = kept,
          !.garbage = 0,
          !.bytes_allocated = @ - SumSizes(s.heap, freed) - s.garbage * SizeofList,
          !.last_freed = freed,
          !.frames_freed = @ \cup (CallBindings(s) \cap SeqToSet(freed)),
          !.construction_freed =
              @ \/ (\E i \in DOMAIN s.held :
                        /\ s.held[i].kind \in {"instance", "module"}
                        /\ s.held[i].id \notin keptSet)]

(***************************************************************************)
(* Reachability, stated apart from the marking code: the objects on the    *)
(* heap list that a path of references set by the program leads to from    *)
(* the roots.                                                              *)
(***************************************************************************)
ValRefs(v) == IF v.type \in HeapValTypes /\ v.obj # 0 THEN {v.obj} ELSE {}

Refs(o) ==
    CASE o.type = "OBJ_LIST" -> UNION {ValRefs(o.items[i]) : i \in 1..o.count}
      [] o.type = "OBJ_MAP" -> UNION {ValRefs(o.entries[i].value) : i \in DOMAIN o.entries}
      [] o.type = "OBJ_FUNC" -> {o.env} \ {0}
      [] o.type = "OBJ_MODULE" -> {o.members} \ {0}
      [] o.type = "OBJ_CLASS" -> {o.methods} \ {0}
      [] o.type = "OBJ_INSTANCE" -> {o.pith_class, o.fields} \ {0}
      [] o.type = "OBJ_BOUND_METHOD" -> ValRefs(o.receiver) \cup ValRefs(o.method)
      [] o.type = "OBJ_ENV" -> ValRefs(o.val) \cup ({o.next} \ {0})
      [] OTHER -> {}

RECURSIVE Closure(_, _, _)
Closure(h, live, seen) ==
    LET more == (UNION {Refs(h[id]) : id \in seen} \cap live) \ seen
    IN IF more = {} THEN seen ELSE Closure(h, live, seen \cup more)

Roots(s) ==
    ({s.global_env, s.native_string_methods, s.native_list_methods,
      s.native_module_funcs} \cup SeqToSet(s.temp_roots)) \ {0}

Reachable(s) ==
    LET live == SeqToSet(s.objects) IN Closure(s.heap, live, Roots(s) \cap live)

\* the sizes with which the objects ids were allocated, summed
RECURSIVE AllocatedSizes(_, _)
AllocatedSizes(allocs, ids) ==
    IF ids = <<>> THEN 0
    ELSE allocs[Head(ids)].size + AllocatedSizes(allocs, Tail(ids))

\* bytes_allocated is the sum of the allocation sizes of the objects on the
\* heap list, and no object on the list is marked (observation)
Accounted(s) ==
    /\ s.bytes_allocated = AllocatedSizes(s.allocs, s.objects)
                               + (s.garbage + s.live_lists) * SizeofList
    /\ \A i \in DOMAIN s.objects : s.heap[s.objects[i]].is_marked = 0

\* what a collection leaves: the heap list, the two counters, the mark bits
Collected(s) ==
    [objects |-> s.objects, garbage |-> s.garbage, live_lists |-> s.live_lists,
     bytes_allocated |-> s.bytes_allocated, next_gc_threshold |-> s.next_gc_threshold,
     marks |-> [id \in DOMAIN s.heap |-> s.heap[id].is_marked],
     accounted |-> Accounted(s)]

\* gc_collect: mark, sweep, then the next threshold.  Marking a class whose
\* uninitialised parent is the address of nothing is undefined.
collect(s) ==
    Let([m \in {mark_roots(s)} |->
    Let([s2 \in {sweep(m)} |->
        LET reach == Reachable(s)
            wild == \E id \in DOMAIN m.heap :
                       /\ m.heap[id].type = "OBJ_CLASS" /\ m.heap[id].is_marked = 1
                       /\ m.heap[id].parent # 0 /\ m.heap[id].parent \notin DOMAIN m.heap
        IN [s2 EXCEPT
              !.halted = @ \/ (wild /\ s.ub_crash),
              !.next_gc_threshold =
                  IF s2.bytes_allocated * 2 < MinThreshold
                  THEN MinThreshold ELSE s2.bytes_allocated * 2,
              !.gc_count = @ + 1,
              !.swept_reachable = @ \/ (reach \cap SeqToSet(s2.last_freed) # {})]])])

\* the states that n collections one right after the other leave
RECURSIVE collect_again(_, _)
collect_again(s, n) ==
    IF n = 0 THEN <<>>
    ELSE Let([c \in {collect(s)} |-> <<c>> \o collect_again(c, n - 1)])

\* gc_collect, with the observation of the run: what it left, and what a
\* second gc_collect called right after it would free and leave
gc_collect(s) ==
    Let([c \in {collect_again(s, 2)} |->
        [c[1] EXCEPT !.collections = Append(@,
            [first |-> Collected(c[1]), freed |-> c[1].last_freed,
             crashed |-> c[1].halted \/ c[2].halted,
             second |-> Collected(c[2]),
             second_freed |-> Len(c[2].last_freed) + c[1].garbage])]])

\* the second half of allocate_obj: the object goes to the head of the list
\* and its size is counted.  s0 is the state on entry, s1 the state after
\* the collection, if one ran; the call is logged.
link_obj(s0, s1, size, obj) ==
    Let([s2 \in {[s1 EXCEPT
                     !.heap = Append(@, [obj EXCEPT !.is_marked = 0]),
                     !.objects = <<Len(s1.heap) + 1>> \o @,
                     !.bytes_allocated = @ + size,
                     !.allocs = Append(@,
                         [id |-> Len(s1.heap) + 1,
                          size |-> size,
                          bytes |-> s0.bytes_allocated,
                          threshold |-> s0.next_gc_threshold,
                          collected |-> Len(s1.collections) > Len(s0.collections),
                          existing |-> Len(s0.heap),
                          collection |-> Len(s1.collections),
                          bytes_left |-> s1.bytes_allocated,
                          accounted |-> FALSE])]} |->
        [s |-> [s2 EXCEPT !.allocs[Len(s2.allocs)].accounted = Accounted(s2)],
         id |-> Len(s1.heap) + 1]])

\* an allocate_obj that collects as soon as the threshold is reached
allocate_obj_AtThreshold(s, size, obj) ==
    Let([s0 \in {s} |->
    Let([s1 \in {IF s0.bytes_allocated >= s0.next_gc_threshold
                 THEN gc_collect(s0) ELSE s0} |->
        link_obj(s0, s1, size, obj)])])

\* allocate_obj: collect first when over the threshold, then thread the new
\* object onto the head of the list and count its size.  obj is the object
\* as the caller initialises it right after the call.
allocate_obj(s, size, obj) ==
    Let([s0 \in {s} |->
    Let([s1 \in {IF s0.bytes_allocated > s0.next_gc_threshold
                 THEN gc_collect(s0) ELSE s0} |->
        link_obj(s0, s1, size, obj)])])

\* free_all_objects: clear every mark, then sweep
free_all_objects(s) ==
    Let([s0 \in {s} |->
        sweep([s0 EXCEPT
                 !.heap = [id \in DOMAIN s0.heap |-> [s0.heap[id] EXCEPT !.is_marked = 0]],
                 !.garbage = @ + s0.live_lists,
                 !.live_lists = 0])])

(***************************************************************************)
(* Environments, hash maps and lists (src/interpreter.c).                  *)
(***************************************************************************)
\* env_define: a new binding, holding a copy of val, becomes the head of the
\* chain *env_ptr.  g tells that env_ptr is &global_env.
env_define(s, env, g, name, val) ==
    IF s.halted THEN [s |-> s, env |-> env]
    ELSE Let([a \in {allocate_obj(s, SizeofEnv,
                        [type |-> "OBJ_ENV", is_marked |-> 0, name |-> name,
                         val |-> VoidV, next |-> env])} |->
         Let([c \in {value_copy(a.s, val)} |->
            [s |-> [c.s EXCEPT !.heap[a.id].val = c.v,
                               !.global_env = IF g THEN a.id ELSE @],
             env |-> a.id]])])

\* the first binding of `name` on the chain that starts at env, or 0
RECURSIVE EnvFind(_, _, _)
EnvFind(h, env, name) ==
    IF env = 0 THEN 0
    ELSE IF h[env].name = name THEN env
    ELSE EnvFind(h, h[env].next, name)

\* env_get: the chain first, then the global chain, else a runtime error
env_get(s, env, name, line) ==
    LET b == EnvFind(s.heap, env, name)
        gb == EnvFind(s.heap, s.global_env, name)
    IN IF b # 0 THEN R(s.heap[b].val, s)
       ELSE IF gb # 0 THEN R(s.heap[gb].val, s)
       ELSE R(VoidV, report_error(s, line, "Undefined variable"))

\* an assignment that looks in the global chain before the current one
env_assign_GlobalFirst(s, env, name, val, line) ==
    LET b == EnvFind(s.heap, env, name)
        gb == EnvFind(s.heap, s.global_env, name)
        c == value_copy(s, val)
    IN IF s.halted THEN s
       ELSE IF gb # 0 THEN [c.s EXCEPT !.heap[gb].val = c.v]
       ELSE IF b # 0 THEN [c.s EXCEPT !.heap[b].val = c.v]
       ELSE report_error(s, line, "Undefined variable")

\* env_assign: overwrite the first binding found, chain first, then globals
env_assign(s, env, name, val, line) ==
    LET b == EnvFind(s.heap, env, name)
        gb == EnvFind(s.heap, s.global_env, name)
        c == value_copy(s, val)
    IN IF s.halted THEN s
       ELSE IF b # 0 THEN [c.s EXCEPT !.heap[b].val = c.v]
       ELSE IF gb # 0 THEN [c.s EXCEPT !.heap[gb].val = c.v]
       ELSE report_error(s, line, "Undefined variable")

\* hashmap_create.  The 16 buckets are kept as one chain, newest entry first.
hashmap_create(s, key_type, value_type) ==
    allocate_obj(s, SizeofHashMap,
        [type |-> "OBJ_MAP", is_marked |-> 0, entries |-> <<>>,
         key_type |-> key_type, value_type |-> value_type])

\* the position of key in a chain of entries, or 0
KeyIndex(entries, key) ==
    IF \E i \in DOMAIN entries : entries[i].key = key
    THEN CHOOSE i \in DOMAIN entries : entries[i].key = key
    ELSE 0

\* a hashmap_set without the type guard
hashmap_set_Unguarded(s, map, key, value, line) ==
    LET m == s.heap[map]
        i == KeyIndex(m.entries, key)
    IN IF s.halted THEN s
       ELSE IF i # 0 THEN [s EXCEPT !.heap[map].entries[i].value = value]
       ELSE [s EXCEPT !.heap[map].entries = <<[key |-> key, value |-> value]>> \o @]

\* hashmap_set: the type guard, then overwrite the entry of key or add one
hashmap_set(s, map, key, value, line) ==
    LET m == s.heap[map]
        i == KeyIndex(m.entries, key)
    IN IF s.halted THEN s
       ELSE IF m.value_type # "VAL_VOID" /\ value.type # m.value_type
       THEN report_error(s, line, "Type mismatch")
       ELSE IF i # 0 THEN [s EXCEPT !.heap[map].entries[i].value = value]
       ELSE [s EXCEPT !.heap[map].entries = <<[key |-> key, value |-> value]>> \o @]

\* the observation of one hashmap_set call of the program on map: the
\* declared value type, the entries before (in s) and after (in s2), and
\* the error reported
LogInsert(s, s2, map, key, value, line) ==
    IF s.halted THEN s2
    ELSE [s2 EXCEPT !.inserts = Append(@,
            [map |-> map, key |-> key, value |-> value, line |-> line,
             key_type |-> s.heap[map].key_type, value_type |-> s.heap[map].value_type,
             before |-> s.heap[map].entries, after |-> s2.heap[map].entries,
             errors |-> SubSeq(s2.errors, Len(s.errors) + 1, Len(s2.errors))])]

\* hashmap_get: the value stored under key, or void
hashmap_get(h, map, key) ==
    LET i == KeyIndex(h[map].entries, key)
    IN IF i # 0 THEN h[map].entries[i].value ELSE VoidV

\* a list_add that grows a fixed-size list like any other
list_add_Grows(s, list, item) ==
    LET l == s.heap[list]
    IN IF s.halted THEN s
       ELSE [s EXCEPT
               !.heap[list].capacity =
                   IF l.count >= l.capacity
                   THEN (IF l.capacity = 0 THEN 4 ELSE l.capacity * 2) ELSE @,
               !.heap[list].items = Append(SubSeq(@, 1, l.count), item),
               !.heap[list].count = @ + 1]

\* list_add
list_add(s, list, item) ==
    LET l == s.heap[list]
    IN IF s.halted THEN s
       ELSE IF l.count >= l.capacity /\ l.is_fixed = 1
       THEN report_error(s, 0, "Cannot append to a fixed-size list.")
       ELSE [s EXCEPT
               !.heap[list].capacity =
                   IF l.count >= l.capacity
                   THEN (IF l.capacity = 0 THEN 4 ELSE l.capacity * 2) ELSE @,
               !.heap[list].items = Append(SubSeq(@, 1, l.count), item),
               !.heap[list].count = @ + 1]

\* the observation of one append to, or of one store at index into, a list:
\* the list before (in s) and after (in s2), and the error reported
LogAppend(s, s2, list, item) ==
    [s2 EXCEPT !.appends = Append(@,
        [list |-> list, item |-> item, before |-> s.heap[list], after |-> s2.heap[list],
         errors |-> SubSeq(s2.errors, Len(s.errors) + 1, Len(s2.errors))])]
LogStore(s, s2, list, index, item) ==
    [s2 EXCEPT !.stores = Append(@,
        [list |-> list, index |-> index, item |-> item,
         before |-> s.heap[list], after |-> s2.heap[list],
         errors |-> SubSeq(s2.errors, Len(s.errors) + 1, Len(s2.errors))])]

\* native_len and native_list_append; the other natives are outside the model
call_native(s, fn, args) ==
    IF s.halted THEN R(VoidV, s)
    ELSE IF fn = "native_len" THEN
        IF Len(args) # 1 THEN R(VoidV, report_error(s, 0, "len() takes no arguments."))
        ELSE IF args[1].type = "VAL_LIST" THEN R(IntV(s.heap[args[1].obj].count), s)
        ELSE R(VoidV, report_error(s, 0, "len() can only be called on a string or a list."))
    ELSE IF fn = "native_list_append" THEN
        IF Len(args) # 2 THEN R(VoidV, report_error(s, 0, "append() takes exactly one argument."))
        ELSE IF args[1].type # "VAL_LIST"
        THEN R(VoidV, report_error(s, 0, "append() must be called on a list."))
        ELSE R(VoidV, LogAppend(s, list_add(s, args[1].obj, args[2]),
                                args[1].obj, args[2]))
    ELSE R(VoidV, s)

\* register_native_method
register_native_method(s, map, name, fn) == hashmap_set(s, map, name, NativeV(fn), 0)

\* define_all_natives_in_env(&global_env)
define_all_natives_in_env(s) ==
    Let([d1 \in {env_define(s, s.global_env, TRUE, "clock", NativeV("native_clock"))} |->
        env_define(d1.s, d1.s.global_env, TRUE, "input", NativeV("native_input")).s])

\* register_all_native_methods
register_all_native_methods(s) ==
    Let([a \in {hashmap_create(s, "VAL_STRING", "VAL_NATIVE_FN")} |->
        LET s1 == [a.s EXCEPT !.native_string_methods = a.id]
            s2 == register_native_method(s1, a.id, "len", "native_len")
            s3 == register_native_method(s2, a.id, "trim", "native_string_trim")
            s4 == register_native_method(s3, a.id, "split", "native_string_split")
        IN Let([b \in {hashmap_create(s4, "VAL_STRING", "VAL_NATIVE_FN")} |->
            LET s5 == [b.s EXCEPT !.native_list_methods = b.id]
                s6 == register_native_method(s5, b.id, "len", "native_len")
                s7 == register_native_method(s6, b.id, "append", "native_list_append")
            IN register_native_method(s7, b.id, "join", "native_list_join")])])

\* register_all_native_modules
register_all_native_modules(s) ==
    Let([r \in {hashmap_create(s, "VAL_STRING", "VAL_HASHMAP")} |->
    Let([m \in {hashmap_create([r.s EXCEPT !.native_module_funcs = r.id],
                               "VAL_STRING", "VAL_NATIVE_FN")} |->
        LET m1 == register_native_method(m.s, m.id, "sqrt", "native_math_sqrt")
            m2 == register_native_method(m1, m.id, "sin", "native_math_sin")
            m3 == register_native_method(m2, m.id, "cos", "native_math_cos")
            m4 == register_native_method(m3, m.id, "tan", "native_math_tan")
            m5 == register_native_method(m4, m.id, "floor", "native_math_floor")
            m6 == register_native_method(m5, m.id, "ceil", "native_math_ceil")
            s2 == register_native_method(m6, m.id, "log", "native_math_log")
            s3 == hashmap_set(s2, r.id, "math", ObjV("VAL_HASHMAP", m.id), 0)
        IN Let([io \in {hashmap_create(s3, "VAL_STRING", "VAL_NATIVE_FN")} |->
            LET s4 == register_native_method(io.s, io.id, "read_file", "native_io_read_file")
                s5 == register_native_method(s4, io.id, "write_file", "native_io_write_file")
                s6 == hashmap_set(s5, r.id, "io", ObjV("VAL_HASHMAP", io.id), 0)
            IN Let([sy \in {hashmap_create(s6, "VAL_STRING", "VAL_NATIVE_FN")} |->
                LET s7 == register_native_method(sy.s, sy.id, "exit", "native_sys_exit")
                IN hashmap_set(s7, r.id, "sys", ObjV("VAL_HASHMAP", sy.id), 0)])])])])

(***************************************************************************)
(* The evaluator: eval, exec, exec_block (src/interpreter.c).              *)
(* children[1] here is children[0] of the C code.                          *)
(***************************************************************************)
RECURSIVE eval(_, _, _)
RECURSIVE exec(_, _, _, _)
RECURSIVE interp(_, _, _, _, _)
RECURSIVE exec_block(_, _, _)
RECURSIVE eval_seq(_, _, _, _, _)
RECURSIVE exec_stmts(_, _, _, _)
RECURSIVE while_loop(_, _, _)
RECURSIVE for_loop(_, _, _)
RECURSIVE foreach_loop(_, _, _, _, _)
RECURSIVE do_while_loop(_, _, _)
RECURSIVE switch_cases(_, _, _, _, _, _)
RECURSIVE switch_defaults(_, _, _, _)

\* what a C condition `v.int_val` sees: the int or bool payload, and the
\* non-null pointer of the other variants
Truthy(v) ==
    IF v.type \in {"VAL_INT", "VAL_BOOL", "VAL_VOID", "VAL_BREAK", "VAL_CONTINUE"}
    THEN v.int_val # 0
    ELSE TRUE

\* the observations of a run, in order: a statement starts ("stmt"), a loop
\* starts ("enter"), tests its condition ("cond"), gets the result v of its
\* body ("body"), ends with result v on chain env ("exit"), a return
\* statement has its value v ("returned"), a call ends with result v ("ret")
Event(s, k, node, v, env) ==
    [s EXCEPT !.trace = Append(@, [k |-> k, line |-> node.line, type |-> node.type,
                                   depth |-> s.depth, v |-> v, env |-> env])]
LogStmt(s, node) == Event(s, "stmt", node, VoidV, 0)
LogCond(s, node) == Event(s, "cond", node, VoidV, 0)
LogBody(s, node, v) == Event(s, "body", node, v, 0)

\* the nodes of the chain env, head first
RECURSIVE Chain(_, _)
Chain(h, env) == IF env = 0 THEN <<>> ELSE <<env>> \o Chain(h, h[env].next)

\* every binding on the heap: its name and its value
Bindings(h) ==
    [id \in DOMAIN h |->
        IF h[id].type = "OBJ_ENV"
        THEN [bound |-> TRUE, name |-> h[id].name, val |-> h[id].val]
        ELSE [bound |-> FALSE, name |-> "", val |-> VoidV]]

\* the observation of one env_assign call: the two chains it may walk, the
\* bindings before (in s) and after (in s2), and the error it reported
LogAssign(s, s2, env, name, val, line) ==
    [s2 EXCEPT !.assigns = Append(@,
        [name |-> name, value |-> val, line |-> line,
         chain |-> Chain(s.heap, env), global_chain |-> Chain(s.heap, s.global_env),
         before |-> Bindings(s.heap), after |-> Bindings(s2.heap),
         errors |-> SubSeq(s2.errors, Len(s.errors) + 1, Len(s2.errors))])]

\* the children nodes[i..] evaluated left to right; acc collects the values
eval_seq(nodes, i, env, s, acc) ==
    IF i > Len(nodes) THEN [vs |-> acc, s |-> s]
    ELSE Let([r \in {eval(nodes[i], env, s)} |->
            eval_seq(nodes, i + 1, env, Hold(r.s, r.v.obj, "temp"), Append(acc, r.v))])

\* C integer division and remainder: the quotient is truncated toward zero
CDiv(a, b) ==
    LET q == (IF a < 0 THEN -a ELSE a) \div (IF b < 0 THEN -b ELSE b)
    IN IF (a < 0) = (b < 0) THEN q ELSE -q
CRem(a, b) == a - b * CDiv(a, b)

\* eval, AST_BINARY_OP: the operator applied to two evaluated operands (the
\* int and string rows, and the bool row; floats are outside the model)
binary_op(op, left, right) ==
    IF left.type = "VAL_INT" /\ right.type = "VAL_INT" THEN
        CASE op = "+" -> IntV(left.int_val + right.int_val)
          [] op = "-" -> IntV(left.int_val - right.int_val)
          [] op = "*" -> IntV(left.int_val * right.int_val)
          [] op = "/" /\ right.int_val # 0 -> IntV(CDiv(left.int_val, right.int_val))
          [] op = "%" /\ right.int_val # 0 -> IntV(CRem(left.int_val, right.int_val))
          [] op = "<" -> BoolV(left.int_val < right.int_val)
          [] op = ">" -> BoolV(left.int_val > right.int_val)
          [] op = "<=" -> BoolV(left.int_val <= right.int_val)
          [] op = ">=" -> BoolV(left.int_val >= right.int_val)
          [] op = "==" -> BoolV(left.int_val = right.int_val)
          [] op = "!=" -> BoolV(left.int_val # right.int_val)
          [] OTHER -> VoidV
    ELSE IF left.type = "VAL_STRING" /\ right.type = "VAL_STRING" THEN
        CASE op = "+" -> StrV(left.str_val \o right.str_val)
          [] op = "==" -> BoolV(left.str_val = right.str_val)
          [] op = "!=" -> BoolV(left.str_val # right.str_val)
          [] OTHER -> VoidV
    ELSE IF left.type = "VAL_BOOL" /\ right.type = "VAL_BOOL" THEN
        CASE op = "and" -> BoolV(left.int_val # 0 /\ right.int_val # 0)
          [] op = "or" -> BoolV(left.int_val # 0 \/ right.int_val # 0)
          [] OTHER -> VoidV
    ELSE VoidV

\* the last node of a chain of bindings
RECURSIVE EnvTail(_, _)
EnvTail(h, env) == IF h[env].next = 0 THEN env ELSE EnvTail(h, h[env].next)

\* env_define(&arg_env, body->args[i], args[i + off]) for i = from..n-1
RECURSIVE bind_args(_, _, _, _, _, _)
bind_args(s, arg_env, names, vals, i, n) ==
    IF i > n \/ s.halted THEN [s |-> s, env |-> arg_env]
    ELSE Let([d \in {env_define(s, arg_env, FALSE,
                                IF i <= Len(names) THEN names[i] ELSE "", vals[i])} |->
            bind_args(d.s, d.env, names, vals, i + 1, n)])

\* a closure whose call sees the caller's chain instead of the captured one
link_closure_Dynamic(s, arg_env, f) ==
    IF arg_env # 0
    THEN [s |-> [s EXCEPT !.heap[EnvTail(s.heap, arg_env)].next = s.global_env],
          env |-> arg_env]
    ELSE [s |-> s, env |-> s.global_env]

\* the environment a call runs in: the fresh bindings, their tail linked to
\* the environment the function captured; the captured one itself when the
\* call binds nothing
link_closure(s, arg_env, f) ==
    IF arg_env # 0
    THEN [s |-> [s EXCEPT !.heap[EnvTail(s.heap, arg_env)].next = s.heap[f].env],
          env |-> arg_env]
    ELSE [s |-> s, env |-> s.heap[f].env]

\* the call of a user function f: `this` first when the callee is a bound
\* method or an init, then the parameters, then the body block
\* (func->body->children[0] is read where the function was defined; when
\* that tree has been freed the read is undefined: the call crashes, or it
\* finds the nodes as they were)
invoke(s, f, withThis, receiver, vals) ==
    Let([t \in {IF withThis THEN env_define(s, 0, FALSE, "this", receiver)
                ELSE [s |-> s, env |-> 0]} |->
    Let([b \in {bind_args(t.s, t.env, s.heap[f].body.args, vals, 1, Len(vals))} |->
        IF b.s.halted THEN R(VoidV, b.s)
        ELSE
    Let([l \in {link_closure(b.s, b.env, f)} |->
    Let([r \in {exec_block(s.heap[f].body.children[1], l.env,
                    Hold([l.s EXCEPT !.depth = @ + 1,
                                     !.halted = @ \/ (f \in s.body_freed /\ s.ub_crash),
                                     !.calls = Append(@,
                              [func |-> f, env |-> l.env, nargs |-> Len(vals),
                               withThis |-> withThis, receiver |-> receiver,
                               captured |-> s.heap[f].env,
                               body_freed |-> f \in s.body_freed])],
                         b.env, "frame"))} |->
        IF r.s.halted THEN R(VoidV, r.s)
        ELSE R(r.v, [Unhold(Event(r.s, "ret", s.heap[f].body, r.v, 0), Len(s.held)) EXCEPT
                        !.depth = s.depth,
                        !.rets = Append(@, [func |-> f, v |-> r.v])])])])])])

\* allocation of a BoundMethod for a receiver and a method value
bind_method(s, object, method_val) ==
    Let([a \in {allocate_obj(s, SizeofBoundMethod,
                   [type |-> "OBJ_BOUND_METHOD", is_marked |-> 0,
                    receiver |-> object, method |-> method_val])} |->
        R(ObjV("VAL_BOUND_METHOD", a.id), a.s)])

\* eval, AST_NEW_EXPR: the field map of a new instance, one void entry for
\* each of the class's field_count field names
RECURSIVE init_fields(_, _, _, _, _)
init_fields(s, map, names, i, line) ==
    IF i > Len(names) THEN s
    ELSE init_fields(hashmap_set(s, map, names[i], VoidV, line), map, names, i + 1, line)

\* eval, AST_NEW_EXPR
eval_new(node, env, s) ==
    Let([c \in {eval(node.children[1].children[1], env, s)} |->
        IF c.s.halted THEN R(VoidV, c.s)
        ELSE IF c.v.type # "VAL_CLASS"
        THEN R(VoidV, report_error(c.s, node.line, "Cannot instantiate non-class type."))
        ELSE
    Let([a \in {allocate_obj(c.s, SizeofPithInstance,
                   [type |-> "OBJ_INSTANCE", is_marked |-> 0,
                    pith_class |-> c.v.obj, fields |-> 0])} |->
    Let([m \in {hashmap_create(Hold(a.s, a.id, "instance"), "VAL_STRING", "VAL_VOID")} |->
    Let([s3 \in {init_fields([m.s EXCEPT !.heap[a.id].fields = m.id], m.id,
                     SubSeq(m.s.heap[c.v.obj].fields, 1, m.s.heap[c.v.obj].field_count),
                     1, node.line)} |->
        LET call_node == node.children[1]
            instance_val == ObjV("VAL_INSTANCE", a.id)
            init_method_val == hashmap_get(s3.heap, s3.heap[c.v.obj].methods, "init")
            s4 == [s3 EXCEPT !.news = Append(@,
                      [instance |-> a.id, class |-> c.v.obj,
                       fields_at_init |-> s3.heap[m.id].entries,
                       has_init |-> init_method_val.type # "VAL_VOID"])]
        IN IF init_method_val.type # "VAL_VOID" /\ ~s3.halted
           THEN Let([args \in {eval_seq(call_node.children, 2, env, s4, <<>>)} |->
                    R(instance_val,
                      Unhold(invoke(args.s, init_method_val.obj, TRUE,
                                    instance_val, args.vs).s,
                             Len(c.s.held)))])
           ELSE R(instance_val, Unhold(s4, Len(c.s.held)))])])])])

\* the observation of one read of node.value on an instance: whether the
\* field map has the key and what it stores, the class's method of that
\* name, the result v, the BoundMethod made (state s before, s2 after)
LogRead(s, s2, node, object, v) ==
    LET inst == s.heap[object.obj]
        bound == v.type = "VAL_BOUND_METHOD"
    IN [s2 EXCEPT !.reads = Append(@,
          [instance |-> object, field |-> node.value, line |-> node.line,
           present |-> KeyIndex(s.heap[inst.fields].entries, node.value) # 0,
           stored |-> hashmap_get(s.heap, inst.fields, node.value),
           method |-> hashmap_get(s.heap, s.heap[inst.pith_class].methods, node.value),
           result |-> v,
           receiver |-> IF bound THEN s2.heap[v.obj].receiver ELSE VoidV,
           bound_method |-> IF bound THEN s2.heap[v.obj].method ELSE VoidV,
           errors |-> SubSeq(s2.errors, Len(s.errors) + 1, Len(s2.errors))])]

\* eval, AST_FIELD_ACCESS
eval_field_access(node, env, s) ==
    Let([o \in {eval(node.children[1], env, s)} |->
        LET object == o.v
            s1 == o.s
            noSuch == R(VoidV, report_error(s1, node.line, "no field or method"))
        IN IF s1.halted THEN R(VoidV, s1)
           ELSE IF object.type = "VAL_INSTANCE" THEN
                LET inst == s1.heap[object.obj]
                    field == hashmap_get(s1.heap, inst.fields, node.value)
                    method_val == hashmap_get(s1.heap, s1.heap[inst.pith_class].methods,
                                              node.value)
                IN Let([r \in {IF field.type # "VAL_VOID" THEN R(field, s1)
                                ELSE IF method_val.type # "VAL_VOID"
                                THEN bind_method(s1, object, method_val)
                                ELSE noSuch} |->
                       R(r.v, LogRead(s1, r.s, node, object, r.v))])
           ELSE IF object.type = "VAL_MODULE" THEN
                R(hashmap_get(s1.heap, s1.heap[object.obj].members, node.value), s1)
           ELSE IF object.type \in {"VAL_STRING", "VAL_LIST"} THEN
                LET method_val ==
                        hashmap_get(s1.heap,
                                    IF object.type = "VAL_STRING"
                                    THEN s1.native_string_methods
                                    ELSE s1.native_list_methods,
                                    node.value)
                IN IF method_val.type # "VAL_VOID"
                   THEN bind_method(s1, object, method_val)
                   ELSE noSuch
           ELSE noSuch])

\* eval, AST_FUNC_CALL
eval_call(node, env, s) ==
    Let([c \in {eval(node.children[1], env, s)} |->
        IF c.s.halted THEN R(VoidV, c.s)
        ELSE
    Let([a \in {eval_seq(node.children, 2, env, Hold(c.s, c.v.obj, "temp"), <<>>)} |->
        IF a.s.halted THEN R(VoidV, a.s)
        ELSE
    Let([r \in {LET callee == c.v
                    bm == c.s.heap[callee.obj]
                IN IF callee.type = "VAL_BOUND_METHOD" THEN
                       IF bm.method.type = "VAL_NATIVE_FN"
                       THEN call_native(a.s, bm.method.str_val, <<bm.receiver>> \o a.vs)
                       ELSE invoke(a.s, bm.method.obj, TRUE, bm.receiver, a.vs)
                   ELSE IF callee.type = "VAL_FUNC"
                   THEN invoke(a.s, callee.obj, FALSE, VoidV, a.vs)
                   ELSE IF callee.type = "VAL_NATIVE_FN"
                   THEN call_native(a.s, callee.str_val, a.vs)
                   ELSE R(VoidV, report_error(a.s, node.line,
                                              "Expression is not callable."))} |->
        R(r.v, Unhold(r.s, Len(s.held)))])])])

\* eval, AST_LIST_LITERAL
RECURSIVE eval_list_items(_, _, _, _, _)
eval_list_items(nodes, i, env, s, list) ==
    IF i > Len(nodes) \/ s.halted THEN s
    ELSE Let([r \in {eval(nodes[i], env, s)} |->
            eval_list_items(nodes, i + 1, env, list_add(r.s, list, r.v), list)])

\* eval, AST_HASHMAP_LITERAL
RECURSIVE eval_map_items(_, _, _, _, _)
eval_map_items(node, i, map, env, s) ==
    IF i + 1 > Len(node.children) \/ s.halted THEN s
    ELSE Let([key \in {eval(node.children[i], env, s)} |->
         Let([val \in {eval(node.children[i + 1], env, key.s)} |->
            IF key.v.type # "VAL_STRING"
            THEN report_error(val.s, node.children[i].line, "Hashmap keys must be strings.")
            ELSE eval_map_items(node, i + 2, map, env,
                                hashmap_set(val.s, map, key.v.str_val, val.v,
                                            node.line))])])

eval_node(node, env, s) ==
    IF s.halted \/ node.type = "NULL" THEN R(VoidV, s)
    ELSE CASE node.type = "AST_INT_LITERAL" -> R(IntV(node.num), s)
           [] node.type = "AST_STRING_LITERAL" -> strdup(s, node.value)
           [] node.type = "AST_BOOL_LITERAL" -> R(BoolV(node.value = "true"), s)
           [] node.type = "AST_LIST_LITERAL" ->
                Let([a \in {allocate_obj(s, SizeofList,
                               [type |-> "OBJ_LIST", is_marked |-> 0, items |-> <<>>,
                                count |-> 0, capacity |-> Len(node.children),
                                is_fixed |-> 0])} |->
                    R(ObjV("VAL_LIST", a.id),
                      Unhold(eval_list_items(node.children, 1, env,
                                             Hold(a.s, a.id, "temp"), a.id),
                             Len(s.held)))])
           [] node.type = "AST_HASHMAP_LITERAL" ->
                Let([m \in {hashmap_create(s, "VAL_STRING", "VAL_VOID")} |->
                    R(ObjV("VAL_HASHMAP", m.id),
                      Unhold(eval_map_items(node, 1, m.id, env, Hold(m.s, m.id, "temp")),
                             Len(s.held)))])
           [] node.type = "AST_UNARY_OP" ->
                LET o == eval(node.children[1], env, s)
                IN IF node.value = "-" THEN
                       IF o.v.type = "VAL_INT" THEN R(IntV(-o.v.int_val), o.s)
                       ELSE R(VoidV, report_error(o.s, node.line,
                                  "Operand for unary '-' must be a number."))
                   ELSE IF o.v.type = "VAL_BOOL" THEN R(BoolV(o.v.int_val = 0), o.s)
                   ELSE R(VoidV, report_error(o.s, node.line,
                              "Operand for '!' must be a boolean."))
           [] node.type = "AST_INDEX_ACCESS" ->
                LET c == eval(node.children[1], env, s)
                    x == eval(node.children[2], env, c.s)
                    index == x.v.int_val
                IN IF x.s.halted THEN R(VoidV, x.s)
                   ELSE IF c.v.type = "VAL_LIST" THEN
                       IF x.v.type # "VAL_INT"
                       THEN R(VoidV, report_error(x.s, node.line, "List index must be an integer."))
                       ELSE IF index < 0 \/ index >= x.s.heap[c.v.obj].count
                       THEN R(VoidV, report_error(x.s, node.line, "Index out of bounds."))
                       ELSE R(x.s.heap[c.v.obj].items[index + 1], x.s)
                   ELSE IF c.v.type = "VAL_HASHMAP" THEN
                       IF x.v.type # "VAL_STRING"
                       THEN R(VoidV, report_error(x.s, node.line, "Hashmap index must be a string."))
                       ELSE R(hashmap_get(x.s.heap, c.v.obj, x.v.str_val), x.s)
                   ELSE R(VoidV, report_error(x.s, node.line, "Not an indexable type."))
           [] node.type = "AST_VAR_REF" ->
                LET r == env_get(s, env, node.value, node.line)
                IN value_copy(r.s, r.v)
           [] node.type = "AST_NEW_EXPR" -> eval_new(node, env, s)
           [] node.type = "AST_FIELD_ACCESS" -> eval_field_access(node, env, s)
           [] node.type = "AST_BINARY_OP" ->
                LET l == eval(node.children[1], env, s)
                    r == eval(node.children[2], env, l.s)
                    zero == /\ node.value \in {"/", "%"}
                            /\ l.v.type = "VAL_INT" /\ r.v.type = "VAL_INT"
                            /\ r.v.int_val = 0
                    res == binary_op(node.value, l.v, r.v)
                IN IF zero THEN R(VoidV, [r.s EXCEPT !.halted = TRUE])
                   ELSE IF res.type = "VAL_STRING" THEN strdup(r.s, res.str_val)
                   ELSE R(res, r.s)
           [] node.type = "AST_FUNC_CALL" -> eval_call(node, env, s)
           [] OTHER -> R(VoidV, s)

\* exec_block, the loop: the statements run on the chain block_env; the
\* first non-void result ends the loop.  The result carries block_env as
\* the loop leaves it.
exec_stmts(nodes, i, block_env, s) ==
    IF i > Len(nodes) THEN RE(VoidV, block_env, s)
    ELSE Let([r \in {exec(nodes[i], block_env, FALSE, Hold(s, block_env, "scope"))} |->
            IF r.v.type # "VAL_VOID" THEN RE(r.v, r.env, Unhold(r.s, Len(s.held)))
            ELSE exec_stmts(nodes, i + 1, r.env, Unhold(r.s, Len(s.held)))])

\* a block entered with *env_ptr = entry has ended with result v, with
\* block_env = inner, and has left *env_ptr = left, observed
LogBlock(s, node, entry, inner, left, v) ==
    [s EXCEPT !.blocks = Append(@, [line |-> node.line, entry |-> entry,
                                    inner |-> inner, left |-> left, v |-> v.type])]

\* an exec_block that leaves *env_ptr at the chain its statements built
exec_block_NoRestore(node, env, s) ==
    Let([r \in {exec_stmts(node.children, 1, env, s)} |->
        RE(r.v, r.env, LogBlock(r.s, node, env, r.env, r.env, r.v))])

\* exec_block: block_env starts as original_env = *env_ptr, and *env_ptr is
\* set to original_env before each return.  The result carries *env_ptr.
exec_block(node, env, s) ==
    Let([r \in {exec_stmts(node.children, 1, env, s)} |->
        RE(r.v, env, LogBlock(r.s, node, env, r.env, env, r.v))])

\* exec, AST_WHILE
while_loop(node, env, s) ==
    IF s.halted THEN R(VoidV, s)
    ELSE IF s.iters >= MaxIters THEN R(VoidV, [s EXCEPT !.halted = TRUE])
    ELSE Let([c \in {eval(node.children[1], env, LogCond(s, node))} |->
            IF ~Truthy(c.v) \/ c.s.halted THEN R(VoidV, c.s)
            ELSE
         Let([x \in {exec_block(node.children[2], env, [c.s EXCEPT !.iters = @ + 1])} |->
            LET b == R(x.v, LogBody(x.s, node, x.v))
            IN IF x.s.halted THEN R(VoidV, x.s)
               ELSE IF b.v.type = "VAL_BREAK" THEN R(VoidV, b.s)
               ELSE IF b.v.type = "VAL_CONTINUE" THEN while_loop(node, x.env, b.s)
               ELSE IF b.v.type # "VAL_VOID" THEN R(b.v, b.s)
               ELSE while_loop(node, x.env, b.s)])])

\* exec, AST_FOREACH: iteration i (0-based in the C code) over list
foreach_loop(node, list, i, env, s) ==
    IF s.halted THEN R(VoidV, s)
    ELSE IF s.iters >= MaxIters THEN R(VoidV, [s EXCEPT !.halted = TRUE])
    ELSE IF i > s.heap[list].count THEN R(VoidV, LogCond(s, node))
    ELSE Let([d \in {env_define(LogCond(s, node), env, FALSE, node.value,
                                s.heap[list].items[i])} |->
         Let([x \in {exec_block(node.children[2], d.env,
                                Hold([d.s EXCEPT !.iters = @ + 1], d.env, "scope"))} |->
            LET b == R(x.v, LogBody(Unhold(x.s, Len(s.held)), node, x.v))
            IN IF x.s.halted THEN R(VoidV, x.s)
               ELSE IF b.v.type = "VAL_BREAK" THEN R(VoidV, b.s)
               ELSE IF b.v.type = "VAL_CONTINUE"
               THEN foreach_loop(node, list, i + 1, env, b.s)
               ELSE IF b.v.type # "VAL_VOID" THEN R(b.v, b.s)
               ELSE foreach_loop(node, list, i + 1, env, b.s)])])

\* a for loop that treats Break as Continue
for_loop_BreakContinues(node, for_env, s) ==
    IF s.halted THEN R(VoidV, s)
    ELSE IF s.iters >= MaxIters THEN R(VoidV, [s EXCEPT !.halted = TRUE])
    ELSE Let([c \in {eval(node.children[2], for_env, LogCond(s, node))} |->
            IF ~Truthy(c.v) \/ c.s.halted THEN R(VoidV, c.s)
            ELSE
         Let([x \in {exec_block(node.children[4], for_env,
                                [c.s EXCEPT !.iters = @ + 1])} |->
            LET b == R(x.v, LogBody(x.s, node, x.v))
            IN IF x.s.halted THEN R(VoidV, x.s)
               ELSE IF b.v.type \in {"VAL_VOID", "VAL_BREAK", "VAL_CONTINUE"}
               THEN Let([inc \in {exec(node.children[3], for_env, FALSE, b.s)} |->
                        for_loop(node, inc.env, inc.s)])
               ELSE R(b.v, b.s)])])

\* exec, AST_FOR: the loop after the initializer, on the chain for_env
for_loop(node, for_env, s) ==
    IF s.halted THEN R(VoidV, s)
    ELSE IF s.iters >= MaxIters THEN R(VoidV, [s EXCEPT !.halted = TRUE])
    ELSE Let([c \in {eval(node.children[2], for_env, LogCond(s, node))} |->
            IF ~Truthy(c.v) \/ c.s.halted THEN R(VoidV, c.s)
            ELSE
         Let([x \in {exec_block(node.children[4], for_env,
                                [c.s EXCEPT !.iters = @ + 1])} |->
            LET b == R(x.v, LogBody(x.s, node, x.v))
            IN IF x.s.halted THEN R(VoidV, x.s)
               ELSE IF b.v.type = "VAL_BREAK" THEN R(VoidV, b.s)
               ELSE IF b.v.type = "VAL_CONTINUE"
               THEN Let([inc \in {exec(node.children[3], for_env, FALSE, b.s)} |->
                        for_loop(node, inc.env, inc.s)])
               ELSE IF b.v.type # "VAL_VOID" THEN R(b.v, b.s)
               ELSE Let([inc \in {exec(node.children[3], for_env, FALSE, b.s)} |->
                        for_loop(node, inc.env, inc.s)])])])

\* exec, AST_DO_WHILE
do_while_loop(node, env, s) ==
    IF s.halted THEN R(VoidV, s)
    ELSE IF s.iters >= MaxIters THEN R(VoidV, [s EXCEPT !.halted = TRUE])
    ELSE Let([x \in {exec_block(node.children[1], env, [s EXCEPT !.iters = @ + 1])} |->
            LET b == R(x.v, LogBody(x.s, node, x.v))
            IN IF x.s.halted THEN R(VoidV, x.s)
               ELSE IF b.v.type = "VAL_BREAK" THEN R(VoidV, b.s)
               ELSE IF b.v.type \notin {"VAL_VOID", "VAL_CONTINUE"} THEN R(b.v, b.s)
               ELSE Let([c \in {eval(node.children[2], x.env, LogCond(b.s, node))} |->
                        IF Truthy(c.v) THEN do_while_loop(node, x.env, c.s)
                        ELSE R(VoidV, c.s)])])

\* a match that looks at the type only
case_matches_TypeOnly(expr_val, case_val) == expr_val.type = case_val.type

\* exec, AST_SWITCH: the structural match of the scrutinee and a case value
case_matches(expr_val, case_val) ==
    /\ expr_val.type = case_val.type
    /\ \/ expr_val.type = "VAL_INT" /\ expr_val.int_val = case_val.int_val
       \/ expr_val.type = "VAL_STRING" /\ expr_val.str_val = case_val.str_val

\* exec, AST_SWITCH: the walk over children i.., with the `matched` flag; the
\* result tells whether the switch returned from inside the walk
switch_cases(node, i, matched, expr_val, env, s) ==
    IF i > Len(node.children) \/ s.halted
    THEN [v |-> VoidV, s |-> s, matched |-> matched, returned |-> FALSE]
    ELSE LET case_node == node.children[i]
         IN IF case_node.type = "AST_CASE" THEN
                Let([cv \in {eval(case_node.children[1], env, s)} |->
                    IF (matched \/ case_matches(expr_val, cv.v))
                       /\ Len(case_node.children) > 1
                    THEN Let([b \in {exec_block(case_node.children[2], env, cv.s)} |->
                            IF b.v.type = "VAL_BREAK"
                            THEN [v |-> VoidV, s |-> b.s, matched |-> TRUE,
                                  returned |-> TRUE]
                            ELSE IF b.v.type # "VAL_VOID"
                            THEN [v |-> b.v, s |-> b.s, matched |-> TRUE,
                                  returned |-> TRUE]
                            ELSE switch_cases(node, i + 1, TRUE, expr_val, b.env, b.s)])
                    ELSE switch_cases(node, i + 1,
                                      matched \/ case_matches(expr_val, cv.v),
                                      expr_val, env, cv.s)])
            ELSE IF case_node.type = "AST_DEFAULT" /\ matched
                    /\ Len(case_node.children) > 0 THEN
                Let([b \in {exec_block(case_node.children[1], env, s)} |->
                    IF b.v.type = "VAL_BREAK"
                    THEN [v |-> VoidV, s |-> b.s, matched |-> TRUE, returned |-> TRUE]
                    ELSE IF b.v.type # "VAL_VOID"
                    THEN [v |-> b.v, s |-> b.s, matched |-> TRUE, returned |-> TRUE]
                    ELSE switch_cases(node, i + 1, matched, expr_val, b.env, b.s)])
            ELSE switch_cases(node, i + 1, matched, expr_val, env, s)

\* exec, AST_SWITCH: when nothing matched, every default child in order
switch_defaults(node, i, env, s) ==
    IF i > Len(node.children) \/ s.halted THEN R(VoidV, s)
    ELSE LET default_node == node.children[i]
         IN IF default_node.type = "AST_DEFAULT" /\ Len(default_node.children) > 0 THEN
                Let([b \in {exec_block(default_node.children[1], env, s)} |->
                    IF b.v.type = "VAL_BREAK" THEN R(VoidV, b.s)
                    ELSE IF b.v.type # "VAL_VOID" THEN R(b.v, b.s)
                    ELSE switch_defaults(node, i + 1, b.env, b.s)])
            ELSE switch_defaults(node, i + 1, env, s)

\* print_value: the characters printf writes for a value
RECURSIVE print_value(_, _)
RECURSIVE print_items(_, _, _)
print_items(h, items, i) ==
    IF i > Len(items) THEN ""
    ELSE print_value(h, items[i]) \o (IF i < Len(items) THEN ", " ELSE "")
         \o print_items(h, items, i + 1)

print_value(h, v) ==
    CASE v.type = "VAL_INT" -> ToString(v.int_val)
      [] v.type = "VAL_STRING" -> v.str_val
      [] v.type = "VAL_BOOL" -> IF v.int_val # 0 THEN "true" ELSE "false"
      [] v.type = "VAL_FUNC" -> "<function " \o h[v.obj].name \o ">"
      [] v.type = "VAL_NATIVE_FN" -> "<native fn>"
      [] v.type = "VAL_VOID" -> "void"
      [] v.type = "VAL_MODULE" -> "<module " \o h[v.obj].name \o ">"
      [] v.type = "VAL_CLASS" -> "<class " \o h[v.obj].name \o ">"
      [] v.type = "VAL_INSTANCE" -> "<instance of " \o h[h[v.obj].pith_class].name \o ">"
      [] v.type = "VAL_BOUND_METHOD" -> "<bound method>"
      [] v.type = "VAL_LIST" ->
            "[" \o print_items(h, SubSeq(h[v.obj].items, 1, h[v.obj].count), 1) \o "]"
      [] OTHER -> ""

\* exec, AST_PRINT: the values of the children separated by blanks, one line
RECURSIVE exec_print(_, _, _, _, _, _)
exec_print(node, i, env, s, text, vals) ==
    IF s.halted /\ vals = <<>> THEN s
    ELSE IF i > Len(node.children) \/ s.halted
    THEN [s EXCEPT !.output = Append(@, [line |-> node.line, text |-> text, vals |-> vals])]
    ELSE Let([r \in {eval(node.children[i], env, s)} |->
            exec_print(node, i + 1, env, r.s,
                text \o print_value(r.s.heap, r.v)
                     \o (IF i < Len(node.children) THEN " " ELSE ""),
                Append(vals, r.v))])

\* exec, AST_IMPORT: env_define of every entry of the module's native table
RECURSIVE import_natives(_, _, _, _)
import_natives(s, entries, i, module_env) ==
    IF i > Len(entries) THEN [s |-> s, env |-> module_env]
    ELSE Let([d \in {env_define(s, module_env, FALSE, entries[i].key,
                                entries[i].value)} |->
            import_natives(Hold(d.s, d.env, "scope"), entries, i + 1, d.env)])

\* exec, AST_IMPORT: hashmap_set of every binding of module_env
RECURSIVE import_members(_, _, _, _)
import_members(s, members, e, line) ==
    IF e = 0 THEN s
    ELSE import_members(hashmap_set(s, members, s.heap[e].name, s.heap[e].val, line),
                        members, s.heap[e].next, line)

\* exec_module: the statements of a program run in order on *env_ptr
RECURSIVE exec_module(_, _, _, _, _)
exec_module(nodes, i, env, g, s) ==
    IF i > Len(nodes) THEN [s |-> s, env |-> env]
    ELSE Let([r \in {exec(nodes[i], env, g, Hold(s, env, "scope"))} |->
            exec_module(nodes, i + 1, r.env, g, r.s)])

\* the bindings of the chain env, head first: name and value
RECURSIVE EnvBindings(_, _)
EnvBindings(h, env) ==
    IF env = 0 THEN <<>>
    ELSE <<[name |-> h[env].name, val |-> h[env].val]>> \o EnvBindings(h, h[env].next)

\* an import has made `module` of the chain module_env, observed
LogImport(s, module, module_env) ==
    [s EXCEPT !.imports = Append(@,
        [module |-> module, name |-> s.heap[module].name,
         members |-> s.heap[s.heap[module].members].entries,
         bindings |-> EnvBindings(s.heap, module_env)])]

\* exec, AST_IMPORT: the native functions registered under the name are
\* bound on a new chain, the program of the file, when there is one, runs
\* on that chain, and every binding of the chain, head first, is set in the
\* member map of the module
exec_import(node, env, g, s) ==
    Let([n \in {LET native_mod_val ==
                        hashmap_get(s.heap, s.native_module_funcs, node.value)
                IN IF native_mod_val.type = "VAL_HASHMAP"
                   THEN import_natives(s, s.heap[native_mod_val.obj].entries, 1, 0)
                   ELSE [s |-> s, env |-> 0]} |->
    Let([src \in {IF node.value \in DOMAIN n.s.files
                  THEN exec_module(n.s.files[node.value], 1, n.env, FALSE, n.s)
                  ELSE n} |->
    Let([a \in {allocate_obj(src.s, SizeofModule,
                   [type |-> "OBJ_MODULE", is_marked |-> 0, name |-> node.value,
                    members |-> 0])} |->
    Let([m \in {hashmap_create(Hold(a.s, a.id, "module"), "VAL_STRING", "VAL_VOID")} |->
    Let([d \in {env_define(LogImport(
                               import_members([m.s EXCEPT !.heap[a.id].members = m.id],
                                              m.id, src.env, node.line),
                               a.id, src.env),
                           env, g, node.value, ObjV("VAL_MODULE", a.id))} |->
        RE(VoidV, d.env, Unhold(d.s, Len(s.held)))])])])])])

\* exec, AST_CLASS_DEF: parent and fields are left as malloc returned them
exec_class_def(node, env, g, s) ==
    Let([a \in {allocate_obj(s, SizeofPithClass,
                   [type |-> "OBJ_CLASS", is_marked |-> 0, name |-> node.value,
                    methods |-> 0, field_count |-> 0, fields |-> <<>>,
                    fields_ptr |-> s.junk, parent |-> s.junk])} |->
    Let([m \in {hashmap_create(Hold(a.s, a.id, "class"), "VAL_STRING", "VAL_FUNC")} |->
    Let([d \in {env_define([m.s EXCEPT !.heap[a.id].methods = m.id], env, g,
                           node.value, ObjV("VAL_CLASS", a.id))} |->
        RE(VoidV, d.env,
           [Unhold(d.s, Len(s.held)) EXCEPT
               !.last_defined_class = a.id,
               !.class_decls = Append(@, [class |-> a.id, node |-> node,
                                          scope |-> env])])])])])

\* a function-definition statement has made func and left *env_ptr at head,
\* observed
LogFuncDef(s, func, node, head) ==
    [s EXCEPT !.func_decls = Append(@, [func |-> func, node |-> node, head |-> head])]

\* exec, AST_FUNC_DEF: the function captures *env_ptr as it is before its own
\* name is bound; it becomes a method of last_defined_class when that is set
exec_func_def(node, env, g, s) ==
    Let([a \in {allocate_obj(s, SizeofFunc,
                   [type |-> "OBJ_FUNC", is_marked |-> 0, name |-> node.value,
                    body |-> node, env |-> env, owner_class |-> s.junk])} |->
        LET func_val == ObjV("VAL_FUNC", a.id)
            s1 == Hold(a.s, a.id, "func")
        IN IF s.last_defined_class # 0
           THEN RE(VoidV, env,
                   LogFuncDef(Unhold(hashmap_set(s1, s1.heap[s.last_defined_class].methods,
                                                 node.value, func_val, node.line),
                                     Len(s.held)),
                              a.id, node, env))
           ELSE Let([d \in {env_define(s1, env, g, node.value, func_val)} |->
                    RE(VoidV, d.env,
                       LogFuncDef(Unhold(d.s, Len(s.held)), a.id, node, d.env))])])

\* get_type_from_name
get_type_from_name(type_name) ==
    CASE type_name = "int" -> "VAL_INT"
      [] type_name = "string" -> "VAL_STRING"
      [] type_name = "float" -> "VAL_FLOAT"
      [] type_name = "bool" -> "VAL_BOOL"
      [] OTHER -> "VAL_VOID"

\* exec, AST_VAR_DECL of a map: the key/value pairs of the literal, set in order
RECURSIVE map_literal(_, _, _, _, _)
map_literal(literal, i, map, env, s) ==
    IF i + 1 > Len(literal.children) \/ s.halted THEN s
    ELSE Let([key \in {eval(literal.children[i], env, s)} |->
         Let([val \in {eval(literal.children[i + 1], env, key.s)} |->
         Let([h \in {hashmap_set(val.s, map, key.v.str_val, val.v, literal.line)} |->
            map_literal(literal, i + 2, map, env,
                        LogInsert(val.s, h, map, key.v.str_val, val.v,
                                  literal.line))])])])

\* exec, AST_VAR_DECL
exec_var_decl(node, env, g, s) ==
    IF Len(node.children) > 0 /\ node.children[1].type = "AST_ARRAY_SPECIFIER" THEN
        IF Len(node.children[1].children) = 0
        THEN Let([d0 \in {env_define(s, env, g, node.value, ObjV("VAL_LIST", 0))} |->
                 RE(VoidV, d0.env, d0.s)])
        ELSE
        Let([size_val \in {eval(node.children[1].children[1], env, s)} |->
            IF size_val.v.int_val < 0
            THEN RE(VoidV, env, [size_val.s EXCEPT !.halted = TRUE])
            ELSE
        Let([a \in {allocate_obj(size_val.s, SizeofList,
                       [type |-> "OBJ_LIST", is_marked |-> 0,
                        items |-> [i \in 1..size_val.v.int_val |->
                                      Val("VAL_INT", 0, "", 0)],
                        count |-> size_val.v.int_val,
                        capacity |-> size_val.v.int_val, is_fixed |-> 1])} |->
        Let([d1 \in {env_define(Hold(a.s, a.id, "temp"), env, g, node.value,
                                ObjV("VAL_LIST", a.id))} |->
            RE(VoidV, d1.env, Unhold(d1.s, Len(s.held)))])])])
    ELSE IF Len(node.type_name) = 3 /\ node.type_name[1] = "map" THEN
        Let([m \in {hashmap_create(s, get_type_from_name(node.type_name[2]),
                                   get_type_from_name(node.type_name[3]))} |->
        Let([d \in {env_define(IF Len(node.children) > 0
                               THEN map_literal(node.children[1], 1, m.id, env,
                                                Hold(m.s, m.id, "temp"))
                               ELSE m.s,
                               env, g, node.value, ObjV("VAL_HASHMAP", m.id))} |->
            RE(VoidV, d.env, Unhold(d.s, Len(s.held)))])])
    ELSE
        Let([r \in {IF Len(node.children) > 0 THEN eval(node.children[1], env, s)
                    ELSE R(VoidV, s)} |->
        Let([d \in {env_define(Hold(r.s, r.v.obj, "temp"), env, g, node.value, r.v)} |->
            RE(VoidV, d.env, Unhold(d.s, Len(s.held)))])])

\* a field map shared by the instances of a class: the one of the newest
field_map_Shared(h, object) ==
    LET same == {i \in DOMAIN h : /\ h[i].type = "OBJ_INSTANCE"
                                  /\ h[i].pith_class = h[object.obj].pith_class}
    IN h[CHOOSE i \in same : \A j \in same : j <= i].fields

\* object.instance->fields
field_map(h, object) == h[object.obj].fields

\* exec, AST_ASSIGNMENT: the value first, then the target
exec_assignment(node, env, s) ==
    Let([v \in {eval(node.children[2], env, s)} |->
        IF v.s.halted THEN v.s
        ELSE
        LET target == node.children[1]
            val_to_assign == v.v
            s1 == Hold(v.s, val_to_assign.obj, "temp")
        IN IF target.type = "AST_VAR_REF"
           THEN Let([a \in {env_assign(s1, env, target.value, val_to_assign,
                                       target.line)} |->
                    Unhold(LogAssign(s1, a, env, target.value, val_to_assign,
                                     target.line),
                           Len(s.held))])
           ELSE IF target.type = "AST_FIELD_ACCESS" THEN
               Let([object \in {eval(target.children[1], env, s1)} |->
                   Unhold(IF object.s.halted THEN object.s
                          ELSE IF object.v.type = "VAL_INSTANCE"
                          THEN [hashmap_set(object.s,
                                            field_map(object.s.heap, object.v),
                                            target.value, val_to_assign, target.line)
                                  EXCEPT !.writes =
                                      Append(@, [instance |-> object.v.obj,
                                                 field |-> target.value,
                                                 value |-> val_to_assign])]
                          ELSE report_error(object.s, target.line,
                                            "Cannot assign to a field"),
                          Len(s.held))])
           ELSE IF target.type = "AST_INDEX_ACCESS" THEN
               Let([object \in {eval(target.children[1], env, s1)} |->
               Let([index_val \in {eval(target.children[2], env, object.s)} |->
                   LET index == index_val.v.int_val
                   IN Unhold(
                       IF index_val.s.halted THEN index_val.s
                       ELSE IF object.v.type = "VAL_HASHMAP" THEN
                           IF index_val.v.type # "VAL_STRING"
                           THEN report_error(index_val.s, target.line,
                                             "Hashmap index must be a string.")
                           ELSE LogInsert(index_val.s,
                                    hashmap_set(index_val.s, object.v.obj,
                                                index_val.v.str_val, val_to_assign,
                                                target.line),
                                    object.v.obj, index_val.v.str_val, val_to_assign,
                                    target.line)
                       ELSE IF object.v.type = "VAL_LIST" THEN
                           IF index_val.v.type # "VAL_INT"
                           THEN report_error(index_val.s, target.line,
                                             "List or array index must be an integer.")
                           ELSE LogStore(index_val.s,
                                    IF index < 0
                                       \/ index >= index_val.s.heap[object.v.obj].count
                                    THEN report_error(index_val.s, target.line,
                                                      "Index out of bounds.")
                                    ELSE [index_val.s EXCEPT
                                            !.heap[object.v.obj].items[index + 1] =
                                                val_to_assign],
                                    object.v.obj, index, val_to_assign)
                       ELSE report_error(index_val.s, target.line,
                                "Index assignment is only supported for lists, arrays, and hashmaps."),
                       Len(s.held))])])
           ELSE Unhold(s1, Len(s.held))])

\* exec: one statement run on the chain *env_ptr; the result carries the
\* chain as the statement leaves it.  g tells that env_ptr is &global_env.
exec_node(node, env, g, s0) ==
    IF s0.halted \/ node.type = "NULL" THEN RE(VoidV, env, s0)
    ELSE
    LET s == LogStmt([s0 EXCEPT !.last_defined_class =
                         IF node.type \in {"AST_FUNC_DEF", "AST_CLASS_DEF"} THEN @ ELSE 0],
                     node)
        same(r) == RE(r.v, env, r.s)
        loop(r) == RE(r.v, env,
                      IF r.s.halted THEN r.s
                      ELSE Event(Unhold(r.s, Len(s0.held)), "exit", node, r.v, env))
        enter == Event(s, "enter", node, VoidV, env)
    IN CASE node.type = "AST_CLASS_DEF" -> exec_class_def(node, env, g, s)
         [] node.type = "AST_FUNC_DEF" -> exec_func_def(node, env, g, s)
         [] node.type = "AST_PRINT" -> RE(VoidV, env, exec_print(node, 1, env, s, "", <<>>))
         [] node.type = "AST_VAR_DECL" ->
              Let([d \in {exec_var_decl(node, env, g, s)} |->
                  RE(d.v, d.env,
                     [d.s EXCEPT !.decls = Append(@,
                         [name |-> node.value, line |-> node.line,
                          before |-> env, after |-> d.env])])])
         [] node.type = "AST_ASSIGNMENT" -> RE(VoidV, env, exec_assignment(node, env, s))
         [] node.type = "AST_IF" ->
              Let([cond \in {eval(node.children[1], env, s)} |->
                  IF Truthy(cond.v) THEN exec_block(node.children[2], env, cond.s)
                  ELSE IF Len(node.children) > 2 THEN
                      IF node.children[3].type = "AST_IF"
                      THEN exec(node.children[3], env, g, cond.s)
                      ELSE exec_block(node.children[3], env, cond.s)
                  ELSE RE(VoidV, env, cond.s)])
         [] node.type = "AST_WHILE" -> loop(while_loop(node, env, enter))
         [] node.type = "AST_FOREACH" ->
              Let([collection \in {eval(node.children[1], env, enter)} |->
                  IF collection.s.halted THEN RE(VoidV, env, collection.s)
                  ELSE IF collection.v.type # "VAL_LIST"
                  THEN RE(VoidV, env, report_error(collection.s, node.line,
                             "foreach loop can only iterate over a list or array."))
                  ELSE loop(foreach_loop(node, collection.v.obj, 1, env,
                                Hold(collection.s, collection.v.obj, "temp")))])
         [] node.type = "AST_FOR" ->
              Let([init \in {exec(node.children[1], env, FALSE, enter)} |->
                  loop(for_loop(node, init.env, Hold(init.s, init.env, "scope")))])
         [] node.type = "AST_DO_WHILE" -> loop(do_while_loop(node, env, enter))
         [] node.type = "AST_SWITCH" ->
              Let([expr_val \in {eval(node.children[1], env, s)} |->
              Let([w \in {switch_cases(node, 2, FALSE, expr_val.v, env, expr_val.s)} |->
                  IF w.returned THEN RE(w.v, env, w.s)
                  ELSE IF ~w.matched THEN same(switch_defaults(node, 2, env, w.s))
                  ELSE RE(VoidV, env, w.s)])])
         [] node.type = "AST_BREAK" -> RE(BreakV, env, s)
         [] node.type = "AST_CONTINUE" -> RE(ContinueV, env, s)
         [] node.type = "AST_IMPORT" -> exec_import(node, env, g, s)
         [] node.type = "AST_RETURN" ->
              Let([r \in {eval(node.children[1], env, s)} |->
                  RE(r.v, env,
                     IF r.s.halted THEN r.s
                     ELSE Event(r.s, "returned", node, r.v, 0))])
         [] OTHER -> RE(VoidV, env, eval(node, env, s).s)

\* eval and exec call each other through the statements and the expressions
\* of a tree; both are entered here
interp(what, node, env, g, s) ==
    IF what = "eval" THEN eval_node(node, env, s) ELSE exec_node(node, env, g, s)

\* Value eval(ASTNode *node, Env *env)
eval(node, env, s) == interp("eval", node, env, FALSE, s)
\* Value exec(ASTNode *node, Env **env_ptr)
exec(node, env, g, s) == interp("exec", node, env, g, s)

(***************************************************************************)
(* Programs: the trees parse_program (src/parser.c) builds for the source  *)
(* texts given in the comments.  ln is the line of the token the node is   *)
(* created from.                                                           *)
(***************************************************************************)
Lit(n, ln) == Node("AST_INT_LITERAL", "", n, <<>>, <<>>, ln)
Str(str, ln) == Node("AST_STRING_LITERAL", str, 0, <<>>, <<>>, ln)
Bool(b, ln) == Node("AST_BOOL_LITERAL", IF b THEN "true" ELSE "false", 0, <<>>, <<>>, ln)
MapLit(items, ln) == Node("AST_HASHMAP_LITERAL", "", 0, items, <<>>, ln)
Index(collection, index, ln) ==
    Node("AST_INDEX_ACCESS", "", 0, <<collection, index>>, <<>>, ln)
Var(name, ln) == Node("AST_VAR_REF", name, 0, <<>>, <<>>, ln)
Bin(op, l, r, ln) == Node("AST_BINARY_OP", op, 0, <<l, r>>, <<>>, ln)
Call(callee, actuals, ln) == Node("AST_FUNC_CALL", "", 0, <<callee>> \o actuals, <<>>, ln)
New(class, actuals, ln) ==
    Node("AST_NEW_EXPR", "", 0, <<Call(Var(class, ln), actuals, ln)>>, <<>>, ln)
Field(object, name, ln) == Node("AST_FIELD_ACCESS", name, 0, <<object>>, <<>>, ln)
ListLit(items, ln) == Node("AST_LIST_LITERAL", "", 0, items, <<>>, ln)
Block(stmts, ln) == Node("AST_BLOCK", "", 0, stmts, <<>>, ln)
FuncDef(name, params, stmts, ln) ==
    Node("AST_FUNC_DEF", name, 0, <<Block(stmts, ln)>>, params, ln)
VarDecl(ty, name, init, ln) ==
    [Node("AST_VAR_DECL", name, 0, <<init>>, <<>>, ln) EXCEPT !.type_name = <<ty>>]
VarDeclNoInit(ty, name, ln) ==
    [Node("AST_VAR_DECL", name, 0, <<>>, <<>>, ln) EXCEPT !.type_name = <<ty>>]
ArrayDecl(ty, size, name, ln) ==
    [Node("AST_VAR_DECL", name, 0,
          <<Node("AST_ARRAY_SPECIFIER", "", 0, <<Lit(size, ln)>>, <<>>, ln)>>, <<>>, ln)
       EXCEPT !.type_name = <<ty>>]
MapDecl(key_type, value_type, name, init, ln) ==
    [Node("AST_VAR_DECL", name, 0, <<init>>, <<>>, ln) EXCEPT
        !.type_name = <<"map", key_type, value_type>>]
Assign(target, expr, ln) == Node("AST_ASSIGNMENT", "", 0, <<target, expr>>, <<>>, ln)
If(cond, stmts, ln) == Node("AST_IF", "", 0, <<cond, Block(stmts, ln)>>, <<>>, ln)
While(cond, stmts, ln) == Node("AST_WHILE", "", 0, <<cond, Block(stmts, ln)>>, <<>>, ln)
For(init, cond, incr, stmts, ln) ==
    Node("AST_FOR", "", 0, <<init, cond, incr, Block(stmts, ln)>>, <<>>, ln)
Foreach(name, collection, stmts, ln) ==
    Node("AST_FOREACH", name, 0, <<collection, Block(stmts, ln)>>, <<>>, ln)
Switch(expr, arms, ln) == Node("AST_SWITCH", "", 0, <<expr>> \o arms, <<>>, ln)
Case(expr, stmts, ln) == Node("AST_CASE", "", 0, <<expr, Block(stmts, ln)>>, <<>>, ln)
Default(stmts, ln) == Node("AST_DEFAULT", "", 0, <<Block(stmts, ln)>>, <<>>, ln)
PrintS(exprs, ln) == Node("AST_PRINT", "", 0, exprs, <<>>, ln)
Return(expr, ln) == Node("AST_RETURN", "", 0, <<expr>>, <<>>, ln)
Break(ln) == Node("AST_BREAK", "", 0, <<>>, <<>>, ln)
Continue(ln) == Node("AST_CONTINUE", "", 0, <<>>, <<>>, ln)
Import(name, ln) == Node("AST_IMPORT", name, 0, <<>>, <<>>, ln)
FieldDecl(name, ln) ==
    [Node("AST_FIELD_DECL", name, 0, <<>>, <<>>, ln) EXCEPT !.type_name = <<"int">>]
ClassDef(name, parent, members, ln) ==
    [Node("AST_CLASS_DEF", name, 0, members, <<>>, ln) EXCEPT !.parent_class_name = parent]

\* a program: its top-level statements, the lines it is to print where the
\* family fixes them, and for a switch program the scrutinee and the arms
Program(family, body, expected, sv, arms) ==
    [family |-> family, body |-> body, expected |-> expected, sv |-> sv, arms |-> arms,
     files |-> <<>>]

\* the statement a loop body uses to leave its normal course
Ctl(kind, ln) ==
    CASE kind = "break" -> <<Break(ln)>>
      [] kind = "continue" -> <<Continue(ln)>>
      [] kind = "return" -> <<Return(Lit(7, ln), ln)>>
      [] OTHER -> <<>>
CtlKinds == {"none", "break", "continue", "return"}

\*  1 define make(n):
\*  2     int x = n
\*  3     define inner(y):
\*  4         return x + y
\*  5     return inner
\*  6 int x = 100                 (when shadow)
\*  7 int f = make(k)
\*  8 print(f(1))
ClosureProgram(k, shadow) ==
    Program("closure",
       <<FuncDef("make", <<"n">>,
           <<VarDecl("int", "x", Var("n", 2), 2),
             FuncDef("inner", <<"y">>,
                     <<Return(Bin("+", Var("x", 4), Var("y", 4), 4), 4)>>, 3),
             Return(Var("inner", 5), 5)>>, 1)>>
       \o (IF shadow THEN <<VarDecl("int", "x", Lit(100, 6), 6)>> ELSE <<>>)
       \o <<VarDecl("int", "f", Call(Var("make", 7), <<Lit(k, 7)>>, 7), 7),
            PrintS(<<Call(Var("f", 8), <<Lit(1, 8)>>, 8)>>, 8)>>,
     <<ToString(k + 1)>>, 0, <<>>)

\* the members of class P: a field, init and get
\*  2     int n
\*  3     define init(v):
\*  4         this.n = v
\*  5     define get():
\*  6         return this.n
PField == FieldDecl("n", 2)
PInit == FuncDef("init", <<"v">>,
                 <<Assign(Field(Var("this", 4), "n", 4), Var("v", 4), 4)>>, 3)
PGet == FuncDef("get", <<>>, <<Return(Field(Var("this", 6), "n", 6), 6)>>, 5)

\*  1 class P [extends Q]:  with the members in the class body ("body"), or
\*    with init and get defined right after the class statement ("after")
\*  7 P a = new P(1)
\*  8 P b = new P(2)
\*  9 a.n = w
\* 10 print(b.n)
\* 11 print(a.get())
ClassProgram(style, w, parent) ==
    Program("class",
       (IF parent # "" THEN <<ClassDef(parent, "", <<>>, 0)>> ELSE <<>>)
       \o (IF style = "body"
           THEN <<ClassDef("P", parent, <<PField, PInit, PGet>>, 1)>>
           ELSE <<ClassDef("P", parent, <<PField>>, 1), PInit, PGet>>)
       \o <<VarDecl("P", "a", New("P", <<Lit(1, 7)>>, 7), 7),
            VarDecl("P", "b", New("P", <<Lit(2, 8)>>, 8), 8),
            Assign(Field(Var("a", 9), "n", 9), Lit(w, 9), 9),
            PrintS(<<Field(Var("b", 10), "n", 10)>>, 10),
            PrintS(<<Call(Field(Var("a", 11), "get", 11), <<>>, 11)>>, 11)>>,
     <<"2", ToString(w)>>, 0, <<>>)

\*  1 define f():
\*  2     print(1)
\*  3     break | continue
\*  4     print(2)
\*  5 int x = f()
\*  6 print(x)
\*  7 list l = [f()]
\*  8 print(f())
EscapeProgram(kind) ==
    Program("escape",
       <<FuncDef("f", <<>>, <<PrintS(<<Lit(1, 2)>>, 2)>> \o Ctl(kind, 3)
                              \o <<PrintS(<<Lit(2, 4)>>, 4)>>, 1),
         VarDecl("int", "x", Call(Var("f", 5), <<>>, 5), 5),
         PrintS(<<Var("x", 6)>>, 6),
         VarDecl("list", "l", ListLit(<<Call(Var("f", 7), <<>>, 7)>>, 7), 7),
         PrintS(<<Call(Var("f", 8), <<>>, 8)>>, 8)>>,
     <<>>, 0, <<>>)

\* what a return statement returns in ReturnProgram: a literal, a string, a
\* variable declared without a value, or the result of a call that returns
\* nothing
ReturnExprs == {"int", "string", "novalue", "call"}
ReturnExpr(kind, ln) ==
    CASE kind = "int" -> Lit(7, ln)
      [] kind = "string" -> Str("s", ln)
      [] kind = "novalue" -> Var("v", ln)
      [] kind = "call" -> Call(Var("nothing", ln), <<>>, ln)

\*  1 define nothing():
\*  2     pass
\*  3 define g(c):
\*  4     int v
\*  5     while c < 3:
\*  6         c = c + 1
\*  7         if c == at:
\*  8             return E
\*  9         print(1)
\* 10     print(2)
\* 11     return 9
\* 12 print(g(0))
ReturnProgram(kind, at) ==
    Program("return",
       <<FuncDef("nothing", <<>>, <<Block(<<>>, 2)>>, 1),
         FuncDef("g", <<"c">>,
           <<VarDeclNoInit("int", "v", 4),
             While(Bin("<", Var("c", 5), Lit(3, 5), 5),
               <<Assign(Var("c", 6), Bin("+", Var("c", 6), Lit(1, 6), 6), 6),
                 If(Bin("==", Var("c", 7), Lit(at, 7), 7),
                    <<Return(ReturnExpr(kind, 8), 8)>>, 7),
                 PrintS(<<Lit(1, 9)>>, 9)>>, 5),
             PrintS(<<Lit(2, 10)>>, 10),
             Return(Lit(9, 11), 11)>>, 3),
         PrintS(<<Call(Var("g", 12), <<Lit(0, 12)>>, 12)>>, 12)>>,
     <<>>, 0, <<>>)

\* the body of a switch arm: it prints its line, then may break
ArmKinds == {"print", "break"}
Arm(kind, ln) ==
    <<PrintS(<<Lit(ln, ln)>>, ln)>> \o (IF kind = "break" THEN <<Break(ln)>> ELSE <<>>)

\*  1 int t = 0
\*  2 define tick():
\*  3     t = t + 1
\*  4     return sv
\*  5 switch tick():
\*  6     case 1:  print(6) [break]
\*  7     case 2:  print(7) [break]
\*  8     case 2:  print(8) [break]
\*  9     default: print(9) [break]
\* 10 print(t)
SwitchProgram(sv, k1, k2, k3, kd) ==
    Program("switch",
       <<VarDecl("int", "t", Lit(0, 1), 1),
         FuncDef("tick", <<>>,
           <<Assign(Var("t", 3), Bin("+", Var("t", 3), Lit(1, 3), 3), 3),
             Return(Lit(sv, 4), 4)>>, 2),
         Switch(Call(Var("tick", 5), <<>>, 5),
           <<Case(Lit(1, 6), Arm(k1, 6), 6),
             Case(Lit(2, 7), Arm(k2, 7), 7),
             Case(Lit(2, 8), Arm(k3, 8), 8),
             Default(Arm(kd, 9), 9)>>, 5),
         PrintS(<<Var("t", 10)>>, 10)>>,
     <<>>, sv, <<k1, k2, k3, kd>>)

\*  1 define run():
\*  2     for (int i = 0; i < n; i = i + 1):
\*  3         if i == at:
\*  4             break | continue | return 7
\*  5         print(i)
\*  6     return 0
\*  7 print(run())
\*  8 print(i)
ForProgram(kind, at, n) ==
    Program("for",
       <<FuncDef("run", <<>>,
           <<For(VarDecl("int", "i", Lit(0, 2), 2),
                 Bin("<", Var("i", 2), Lit(n, 2), 2),
                 Assign(Var("i", 2), Bin("+", Var("i", 2), Lit(1, 2), 2), 2),
                 <<If(Bin("==", Var("i", 3), Lit(at, 3), 3), Ctl(kind, 4), 3),
                   PrintS(<<Var("i", 5)>>, 5)>>, 2),
             Return(Lit(0, 6), 6)>>, 1),
         PrintS(<<Call(Var("run", 7), <<>>, 7)>>, 7),
         PrintS(<<Var("i", 8)>>, 8)>>,
     <<>>, 0, <<>>)

\*  1 int c = 0
\*  2 while c < n:
\*  3     c = c + 1
\*  4     if c == at:
\*  5         break | continue | return 7
\*  6     print(c)
\*  7 print(c)
WhileProgram(kind, at, n) ==
    Program("while",
       <<VarDecl("int", "c", Lit(0, 1), 1),
         While(Bin("<", Var("c", 2), Lit(n, 2), 2),
           <<Assign(Var("c", 3), Bin("+", Var("c", 3), Lit(1, 3), 3), 3),
             If(Bin("==", Var("c", 4), Lit(at, 4), 4), Ctl(kind, 5), 4),
             PrintS(<<Var("c", 6)>>, 6)>>, 2),
         PrintS(<<Var("c", 7)>>, 7)>>,
     <<>>, 0, <<>>)

\*  1 define run():
\*  2     foreach (int x in [1, .., n]):
\*  3         if x == at:
\*  4             break | continue | return 7
\*  5         print(x)
\*  6     return 0
\*  7 print(run())
ForeachProgram(kind, at, n) ==
    Program("foreach",
       <<FuncDef("run", <<>>,
           <<Foreach("x", ListLit([j \in 1..n |-> Lit(j, 2)], 2),
               <<If(Bin("==", Var("x", 3), Lit(at, 3), 3), Ctl(kind, 4), 3),
                 PrintS(<<Var("x", 5)>>, 5)>>, 2),
             Return(Lit(0, 6), 6)>>, 1),
         PrintS(<<Call(Var("run", 7), <<>>, 7)>>, 7)>>,
     <<>>, 0, <<>>)

\*  1 int x = 1
\*  2 define f(x):
\*  3     int w = 5
\*  4     int x = 3               (when again)
\*  5     T = 7
\*  6     return x
\*  7 int y = 2
\*  8 print(f(10))
\*  9 print(x)
\* 10 T = 8
\* 11 print(y)
AssignProgram(target, again) ==
    Program("assign",
       <<VarDecl("int", "x", Lit(1, 1), 1),
         FuncDef("f", <<"x">>,
           <<VarDecl("int", "w", Lit(5, 3), 3)>>
           \o (IF again THEN <<VarDecl("int", "x", Lit(3, 4), 4)>> ELSE <<>>)
           \o <<Assign(Var(target, 5), Lit(7, 5), 5),
                Return(Var("x", 6), 6)>>, 2),
         VarDecl("int", "y", Lit(2, 7), 7),
         PrintS(<<Call(Var("f", 8), <<Lit(10, 8)>>, 8)>>, 8),
         PrintS(<<Var("x", 9)>>, 9),
         Assign(Var(target, 10), Lit(8, 10), 10),
         PrintS(<<Var("y", 11)>>, 11)>>,
     <<>>, 0, <<>>)

\*  1 define nothing():
\*  2     pass
\*  3 class P:
\*  4     int n
\*  5 define get():
\*  6     return 5
\*  7 P a = new P()
\*  8 a.F = 7 | a.F = nothing()     (none when stored is "unset")
\*  9 print(a.F)
FieldProgram(field, stored) ==
    Program("field",
       <<FuncDef("nothing", <<>>, <<Block(<<>>, 2)>>, 1),
         ClassDef("P", "", <<PField>>, 3),
         FuncDef("get", <<>>, <<Return(Lit(5, 6), 6)>>, 5),
         VarDecl("P", "a", New("P", <<>>, 7), 7)>>
       \o (CASE stored = "int" ->
                  <<Assign(Field(Var("a", 8), field, 8), Lit(7, 8), 8)>>
              [] stored = "void" ->
                  <<Assign(Field(Var("a", 8), field, 8),
                           Call(Var("nothing", 8), <<>>, 8), 8)>>
              [] OTHER -> <<>>)
       \o <<PrintS(<<Field(Var("a", 9), field, 9)>>, 9)>>,
     <<>>, 0, <<>>)

\* a literal of each kind of value
Literals == {"int", "string", "bool"}
Literal(kind, ln) ==
    CASE kind = "int" -> Lit(3, ln)
      [] kind = "string" -> Str("s", ln)
      [] kind = "bool" -> Bool(TRUE, ln)

\*  1 map<string,int> m = {"a": 1, "b": V1}
\*  2 m[K] = V2
\*  3 print(m[K])
MapProgram(v1, key, v2) ==
    Program("map",
       <<MapDecl("string", "int", "m",
                 MapLit(<<Str("a", 1), Lit(1, 1), Str("b", 1), Literal(v1, 1)>>, 1), 1),
         Assign(Index(Var("m", 2), Str(key, 2), 2), Literal(v2, 2), 2),
         PrintS(<<Index(Var("m", 3), Str(key, 3), 3)>>, 3)>>,
     <<>>, 0, <<>>)

\*  1 int[n] xs
\*  2 list l = [1]
\*  3 l.append(2)
\*  4 l.append(3)
\*  5 xs[at] = 5
\*  6 xs.append(9)
\*  7 print(xs)
ListProgram(n, at) ==
    Program("list",
       <<ArrayDecl("int", n, "xs", 1),
         VarDecl("list", "l", ListLit(<<Lit(1, 2)>>, 2), 2),
         Call(Field(Var("l", 3), "append", 3), <<Lit(2, 3)>>, 3),
         Call(Field(Var("l", 4), "append", 4), <<Lit(3, 4)>>, 4)>>
       \o (IF at >= 0 THEN <<Assign(Index(Var("xs", 5), Lit(at, 5), 5), Lit(5, 5), 5)>>
           ELSE <<>>)
       \o <<Call(Field(Var("xs", 6), "append", 6), <<Lit(9, 6)>>, 6),
            PrintS(<<Var("xs", 7)>>, 7)>>,
     <<>>, 0, <<>>)

\*  1 list xs = ["a"]
\*  2 map m = {"z": 1}
\*  3 m["k"] = xs[0]     | m["k"] = "b"  | list ys = [xs[0]] | string s = xs[0]
\*  4 print(m["k"])      | print(m["k"]) | print(ys[0])      | m["k"] = s
StringProgram(kind) ==
    Program("string",
       <<VarDecl("list", "xs", ListLit(<<Str("a", 1)>>, 1), 1),
         VarDecl("map", "m", MapLit(<<Str("z", 2), Lit(1, 2)>>, 2), 2)>>
       \o (CASE kind = "index" ->
                  <<Assign(Index(Var("m", 3), Str("k", 3), 3),
                           Index(Var("xs", 3), Lit(0, 3), 3), 3),
                    PrintS(<<Index(Var("m", 4), Str("k", 4), 4)>>, 4)>>
              [] kind = "literal" ->
                  <<Assign(Index(Var("m", 3), Str("k", 3), 3), Str("b", 3), 3),
                    PrintS(<<Index(Var("m", 4), Str("k", 4), 4)>>, 4)>>
              [] kind = "list" ->
                  <<VarDecl("list", "ys",
                            ListLit(<<Index(Var("xs", 3), Lit(0, 3), 3)>>, 3), 3),
                    PrintS(<<Index(Var("ys", 4), Lit(0, 4), 4)>>, 4)>>
              [] kind = "variable" ->
                  <<VarDecl("string", "s", Index(Var("xs", 3), Lit(0, 3), 3), 3),
                    Assign(Index(Var("m", 4), Str("k", 4), 4), Var("s", 4), 4)>>),
     <<>>, 0, <<>>)

\*  1 import sys | io | math | nosuch
\*  2 print(sys)
ImportProgram(name) ==
    Program("import", <<Import(name, 1), PrintS(<<Var(name, 2)>>, 2)>>,
     <<"<module " \o name \o ">">>, 0, <<>>)

\* the file m.pith (sys.pith for "native"):
\*  1 int a = 1                 (int exit = 1 for "native")
\*  2 int a = 2                 (for "twice")
\*  3 define get():
\*  4     return a
\* the program:
\*  1 import m
\*  2 print(m.a)                (print(sys.exit) for "native")
\*  3 print(m.get())
ModuleProgram(kind) ==
    LET name == IF kind = "native" THEN "sys" ELSE "m"
        var == IF kind = "native" THEN "exit" ELSE "a"
        file == <<VarDecl("int", var, Lit(1, 1), 1)>>
                \o (IF kind = "twice" THEN <<VarDecl("int", var, Lit(2, 2), 2)>> ELSE <<>>)
                \o <<FuncDef("get", <<>>, <<Return(Var(var, 4), 4)>>, 3)>>
        last == IF kind = "twice" THEN "2" ELSE "1"
    IN [Program("module",
           <<Import(name, 1),
             PrintS(<<Field(Var(name, 2), var, 2)>>, 2),
             PrintS(<<Call(Field(Var(name, 3), "get", 3), <<>>, 3)>>, 3)>>,
           <<last, last>>, 0, <<>>)
        EXCEPT !.files = [f \in {name} |-> file]]

\*  1 int x = 1
\*  2 int i = 0                 (define run(): with lines 2 to 10, for return)
\*  3 while i < 2:
\*  4     i = i + 1
\*  5     print(x)
\*  6     if 0 < i:
\*  7         int x = 2
\*  8         print(x)
\*  9         break | continue | return 7
\* 10     print(x)
\* 11 print(run())              (for return)
\* 12 print(x)
ScopeProgram(kind) ==
    LET loop == <<VarDecl("int", "i", Lit(0, 2), 2),
                  While(Bin("<", Var("i", 3), Lit(2, 3), 3),
                    <<Assign(Var("i", 4), Bin("+", Var("i", 4), Lit(1, 4), 4), 4),
                      PrintS(<<Var("x", 5)>>, 5),
                      If(Bin("<", Lit(0, 6), Var("i", 6), 6),
                         <<VarDecl("int", "x", Lit(2, 7), 7),
                           PrintS(<<Var("x", 8)>>, 8)>> \o Ctl(kind, 9), 6),
                      PrintS(<<Var("x", 10)>>, 10)>>, 3)>>
    IN Program("scope",
          <<VarDecl("int", "x", Lit(1, 1), 1)>>
          \o (IF kind = "return"
              THEN <<FuncDef("run", <<>>, loop, 2),
                     PrintS(<<Call(Var("run", 11), <<>>, 11)>>, 11)>>
              ELSE loop)
          \o <<PrintS(<<Var("x", 12)>>, 12)>>,
       CASE kind = "none" -> <<"1", "2", "1", "1", "2", "1", "1">>
         [] kind = "continue" -> <<"1", "2", "1", "2", "1">>
         [] kind = "break" -> <<"1", "2", "1">>
         [] kind = "return" -> <<"1", "2", "7", "1">>,
       0, <<>>)

(***************************************************************************)
(* The tokenizer (tokenizer.c).  A source text is a sequence of characters *)
(* and tokenize is followed one iteration of its scanning loop at a time.  *)
(*   i, line_num, indent_level, at_line_start   the locals of tokenize     *)
(*   indent_stack  the entries written so far; entry k of the C array is   *)
(*             indent_stack[k + 1]                                         *)
(*   tokens    state->tokens                                               *)
(*   phase     "scan" in the loop, "done" after the EOF token, "crashed"   *)
(*   bol       the index where the line line_num begins (observation)      *)
(*   layout    every layout token added in the loop and every change of    *)
(*             indent_level made in it, with bol at that time              *)
(*             (observation)                                               *)
(*   steps     for every line that reached the INDENT / DEDENT test: its   *)
(*             leading width, indent_stack[indent_level] after the test,   *)
(*             and how many layout tokens the test added (observation)     *)
(***************************************************************************)
\* int indent_stack[100]
IndentStackSize == 100

\* the longest source text of the exhaustive set
MaxSourceLen == 6

\* the terminator of a C string
NUL == ""
Blanks == {" ", "\t"}
Token(type, value, line_num) == [type |-> type, value |-> value, line_num |-> line_num]

\* source[i]
At(source, i) == IF i < Len(source) THEN source[i + 1] ELSE NUL

\* the first index from i on whose character is in (outside) a set
IndexOf(source, i, C) == CHOOSE j \in i..Len(source) :
    At(source, j) \in C /\ \A k \in i..(j - 1) : At(source, k) \notin C
IndexOutside(source, i, C) == CHOOSE j \in i..Len(source) :
    At(source, j) \notin C /\ \A k \in i..(j - 1) : At(source, k) \in C

\* whether "###" begins at i
Fence(source, i) ==
    At(source, i) = "#" /\ At(source, i + 1) = "#" /\ At(source, i + 2) = "#"

StartTokenizer(source) ==
    [source |-> source, i |-> 0, line_num |-> 1, indent_stack |-> <<0>>,
     indent_level |-> 0, at_line_start |-> 1, tokens |-> <<>>,
     phase |-> "scan", bol |-> 0, layout |-> <<>>, steps |-> <<>>]

\* no tokenization under way
NoTokenizer == [StartTokenizer(<<>>) EXCEPT !.phase = "idle"]

\* add_token
add_token(t, type, value) ==
    [t EXCEPT !.tokens = Append(@, Token(type, value, t.line_num))]

\* a layout token added in the loop, observed
add_layout(t, type) ==
    [add_token(t, type, NUL) EXCEPT
        !.layout = Append(@, [type |-> type, line_num |-> t.line_num, bol |-> t.bol])]

\* the comment branch: a block comment runs to the "###" that closes it or
\* to the end of the text, a line comment to the end of the line
comment(t) ==
    IF At(t.source, t.i + 1) = "#" /\ At(t.source, t.i + 2) = "#"
    THEN LET from == t.i + 3
             closes == {j \in from..Len(t.source) : Fence(t.source, j)}
             close == IF closes = {} THEN Len(t.source)
                      ELSE CHOOSE j \in closes : \A k \in closes : j <= k
             lines == {k \in from..(close - 1) : At(t.source, k) = "\n"}
         IN [t EXCEPT !.i = IF closes = {} THEN close ELSE close + 3,
                      !.line_num = @ + Cardinality(lines),
                      !.bol = IF lines = {} THEN @
                              ELSE 1 + CHOOSE k \in lines : \A m \in lines : m <= k]
    ELSE [t EXCEPT !.i = IndexOf(t.source, t.i, {"\n", NUL})]

\* indent_stack[k] = v.  Outside the array the store is undefined: the run
\* crashes, or the store lands past the array and is read back from there
store_indent(t, k, v, crash) ==
    IF k >= IndentStackSize /\ crash THEN [t EXCEPT !.phase = "crashed"]
    ELSE IF k < Len(t.indent_stack)
    THEN [t EXCEPT !.indent_stack[k + 1] = v]
    ELSE [t EXCEPT !.indent_stack = Append(@, v)]

\* while (spaces < indent_stack[indent_level]) { DEDENT; indent_level--; }
RECURSIVE dedent(_, _)
dedent(t, spaces) ==
    IF spaces < t.indent_stack[t.indent_level + 1]
    THEN dedent([add_layout(t, "TOKEN_DEDENT") EXCEPT !.indent_level = @ - 1], spaces)
    ELSE t

\* the INDENT / DEDENT test of a line of leading width spaces has taken
\* `before` to t, observed
layout_step(before, t, spaces) ==
    [t EXCEPT !.steps = Append(@,
        [line_num |-> t.line_num, bol |-> t.bol, spaces |-> spaces,
         top |-> t.indent_stack[t.indent_level + 1],
         added |-> Len(t.layout) - Len(before.layout)])]

\* the at_line_start branch
indentation(t, crash) ==
    LET first == IndexOutside(t.source, t.i, Blanks)
        spaces == first - t.i
        i == IF At(t.source, first) = "\r" THEN first + 1 ELSE first
    IN IF At(t.source, i) = "\n"
       THEN [t EXCEPT !.i = i + 1, !.line_num = @ + 1, !.bol = i + 1]
       ELSE IF At(t.source, i) = NUL
       THEN [t EXCEPT !.i = i]
       ELSE IF spaces > t.indent_stack[t.indent_level + 1]
       THEN LET pushed == store_indent([t EXCEPT !.i = i, !.indent_level = @ + 1],
                                       t.indent_level + 1, spaces, crash)
            IN IF pushed.phase = "crashed" THEN pushed
               ELSE layout_step(t, [add_layout(pushed, "TOKEN_INDENT") EXCEPT
                                        !.at_line_start = 0], spaces)
       ELSE Let([popped \in {dedent([t EXCEPT !.i = i], spaces)} |->
                layout_step(t, [popped EXCEPT !.at_line_start = 0], spaces)])

\* the '\n' branch
newline(t) ==
    [add_layout(t, "TOKEN_NEWLINE") EXCEPT
        !.line_num = @ + 1, !.i = @ + 1, !.at_line_start = 1, !.bol = t.i + 1]

\* the identifier branch (no keyword is spelt with the letter of the texts)
identifier(t) ==
    LET end == IndexOutside(t.source, t.i, {"x"})
    IN [add_token(t, "TOKEN_IDENTIFIER", SubSeq(t.source, t.i + 1, end)) EXCEPT !.i = end]

\* after the loop: a DEDENT for every level still open, then EOF
RECURSIVE finish(_)
finish(t) ==
    IF t.indent_level > 0
    THEN finish([add_token(t, "TOKEN_DEDENT", NUL) EXCEPT !.indent_level = @ - 1])
    ELSE [add_token(t, "TOKEN_EOF", NUL) EXCEPT !.phase = "done"]

\* a text of n + 1 lines, each one space deeper than the one before: line k
\* is k spaces, a letter and '\n', and begins at index k (k + 3) / 2
Staircase(n) ==
    [p \in 1..((n + 1) * (n + 4)) \div 2 |->
        LET k == CHOOSE k \in 0..n :
                    (k * (k + 3)) \div 2 < p /\ p <= ((k + 1) * (k + 4)) \div 2
            col == p - (k * (k + 3)) \div 2
        IN IF col <= k THEN " " ELSE IF col = k + 1 THEN "x" ELSE "\n"]

\* three lines of leading widths 2, 1 and 1
Ragged == <<" ", " ", "x", "\n", " ", "x", "\n", " ", "x", "\n">>

Alphabet == {" ", "\n", "#", "x"}
Sources ==
    UNION {[1..n -> Alphabet] : n \in 0..MaxSourceLen}
    \cup {Staircase(IndentStackSize - 1), Staircase(IndentStackSize), Ragged}

(***************************************************************************)
(* The expression parser (parser.c).  Every parse function takes the token *)
(* array and current_token and gives the node with the new current_token.  *)
(***************************************************************************)
\* the most binary operators of an expression drawn
MaxOps == 2

P(node, cur) == [node |-> node, cur |-> cur]
EOFToken == Token("TOKEN_EOF", NUL, 1)

\* peek: tokens[current_token]
peek(tokens, cur) == IF cur < Len(tokens) THEN tokens[cur + 1] ELSE EOFToken

Unary(op, operand, ln) == Node("AST_UNARY_OP", op, 0, <<operand>>, <<>>, ln)

\* the node of a number as the parser makes it: the digits are its value
Number(digits, ln) == [Lit(0, ln) EXCEPT !.value = digits]

RECURSIVE parse_expression(_, _), parse_unary(_, _), parse_power(_, _)
RECURSIVE parse_factor(_, _), parse_term(_, _), parse_comparison(_, _)
RECURSIVE parse_equality(_, _), parse_logic_and(_, _)

\* parse_primary, for a number, an identifier and an expression in
\* parentheses; NULL for what begins no primary expression
parse_primary(tokens, cur) ==
    LET t == peek(tokens, cur)
    IN IF t.type = "TOKEN_NUMBER"
       THEN P(Number(t.value, t.line_num), cur + 1)
       ELSE IF t.type = "TOKEN_IDENTIFIER"
       THEN P(Var(t.value, t.line_num), cur + 1)
       ELSE IF t.type = "TOKEN_LPAREN"
       THEN Let([expr \in {parse_expression(tokens, cur + 1)} |->
                P(expr.node, IF peek(tokens, expr.cur).type = "TOKEN_RPAREN"
                             THEN expr.cur + 1 ELSE expr.cur)])
       ELSE P(NullNode, cur)

\* do { add_child(call, parse_expression(state)); } while (match(TOKEN_COMMA))
RECURSIVE arguments(_, _, _)
arguments(tokens, call, cur) ==
    Let([a \in {parse_expression(tokens, cur)} |->
        LET added == [call EXCEPT !.children = Append(@, a.node)]
        IN IF peek(tokens, a.cur).type = "TOKEN_COMMA"
           THEN arguments(tokens, added, a.cur + 1)
           ELSE P(added, a.cur)])

\* the loop of parse_call: calls and field accesses after the expression
RECURSIVE postfix(_, _)
postfix(tokens, expr) ==
    LET t == peek(tokens, expr.cur)
    IN IF t.type = "TOKEN_LPAREN"
       THEN Let([call \in {IF peek(tokens, expr.cur + 1).type # "TOKEN_RPAREN"
                           THEN arguments(tokens, Call(expr.node, <<>>, t.line_num),
                                          expr.cur + 1)
                           ELSE P(Call(expr.node, <<>>, t.line_num), expr.cur + 1)} |->
                postfix(tokens,
                        P(call.node,
                          IF peek(tokens, call.cur).type = "TOKEN_RPAREN"
                          THEN call.cur + 1 ELSE call.cur))])
       ELSE IF t.type = "TOKEN_DOT"
       THEN postfix(tokens,
                    P(Field(expr.node, peek(tokens, expr.cur + 1).value, t.line_num),
                      expr.cur + 2))
       ELSE expr

parse_call(tokens, cur) == postfix(tokens, parse_primary(tokens, cur))

parse_unary(tokens, cur) ==
    LET op == peek(tokens, cur)
    IN IF op.type \in {"TOKEN_BANG", "TOKEN_MINUS"}
       THEN Let([operand \in {parse_unary(tokens, cur + 1)} |->
                P(Unary(op.value, operand.node, op.line_num), operand.cur)])
       ELSE parse_call(tokens, cur)

\* a binary level: the first operand, then
\* while (peek is an operator of the level) { op = advance(); right = operand;
\*     node = (op left right); left = node; }
\* a parse_power that takes the whole rest of the power chain as the right
\* operand
parse_power_RightAssoc(tokens, cur) ==
    Let([left \in {parse_unary(tokens, cur)} |->
        LET op == peek(tokens, left.cur)
        IN IF op.type = "TOKEN_CARET"
           THEN Let([right \in {parse_power(tokens, left.cur + 1)} |->
                    P(Bin(op.value, left.node, right.node, op.line_num), right.cur)])
           ELSE left])

RECURSIVE power_loop(_, _)
power_loop(tokens, left) ==
    LET op == peek(tokens, left.cur)
    IN IF op.type = "TOKEN_CARET"
       THEN Let([right \in {parse_unary(tokens, left.cur + 1)} |->
                power_loop(tokens,
                    P(Bin(op.value, left.node, right.node, op.line_num), right.cur))])
       ELSE left

parse_power(tokens, cur) ==
    Let([left \in {parse_unary(tokens, cur)} |-> power_loop(tokens, left)])

RECURSIVE factor_loop(_, _)
factor_loop(tokens, left) ==
    LET op == peek(tokens, left.cur)
    IN IF op.type \in {"TOKEN_STAR", "TOKEN_SLASH", "TOKEN_PERCENT"}
       THEN Let([right \in {parse_power(tokens, left.cur + 1)} |->
                factor_loop(tokens,
                    P(Bin(op.value, left.node, right.node, op.line_num), right.cur))])
       ELSE left

parse_factor(tokens, cur) ==
    Let([left \in {parse_power(tokens, cur)} |-> factor_loop(tokens, left)])

RECURSIVE term_loop(_, _)
term_loop(tokens, left) ==
    LET op == peek(tokens, left.cur)
    IN IF op.type \in {"TOKEN_PLUS", "TOKEN_MINUS"}
       THEN Let([right \in {parse_factor(tokens, left.cur + 1)} |->
                term_loop(tokens,
                    P(Bin(op.value, left.node, right.node, op.line_num), right.cur))])
       ELSE left

parse_term(tokens, cur) ==
    Let([left \in {parse_factor(tokens, cur)} |-> term_loop(tokens, left)])

RECURSIVE comparison_loop(_, _)
comparison_loop(tokens, left) ==
    LET op == peek(tokens, left.cur)
    IN IF op.type \in {"TOKEN_GT", "TOKEN_LT", "TOKEN_GTE", "TOKEN_LTE"}
       THEN Let([right \in {parse_term(tokens, left.cur + 1)} |->
                comparison_loop(tokens,
                    P(Bin(op.value, left.node, right.node, op.line_num), right.cur))])
       ELSE left

parse_comparison(tokens, cur) ==
    Let([left \in {parse_term(tokens, cur)} |-> comparison_loop(tokens, left)])

RECURSIVE equality_loop(_, _)
equality_loop(tokens, left) ==
    LET op == peek(tokens, left.cur)
    IN IF op.type \in {"TOKEN_EQ", "TOKEN_NEQ"}
       THEN Let([right \in {parse_comparison(tokens, left.cur + 1)} |->
                equality_loop(tokens,
                    P(Bin(op.value, left.node, right.node, op.line_num), right.cur))])
       ELSE left

parse_equality(tokens, cur) ==
    Let([left \in {parse_comparison(tokens, cur)} |-> equality_loop(tokens, left)])

RECURSIVE logic_and_loop(_, _)
logic_and_loop(tokens, left) ==
    LET op == peek(tokens, left.cur)
    IN IF op.type = "TOKEN_KEYWORD" /\ op.value = "and"
       THEN Let([right \in {parse_equality(tokens, left.cur + 1)} |->
                logic_and_loop(tokens,
                    P(Bin(op.value, left.node, right.node, op.line_num), right.cur))])
       ELSE left

parse_logic_and(tokens, cur) ==
    Let([left \in {parse_equality(tokens, cur)} |-> logic_and_loop(tokens, left)])

RECURSIVE logic_or_loop(_, _)
logic_or_loop(tokens, left) ==
    LET op == peek(tokens, left.cur)
    IN IF op.type = "TOKEN_KEYWORD" /\ op.value = "or"
       THEN Let([right \in {parse_logic_and(tokens, left.cur + 1)} |->
                logic_or_loop(tokens,
                    P(Bin(op.value, left.node, right.node, op.line_num), right.cur))])
       ELSE left

parse_logic_or(tokens, cur) ==
    Let([left \in {parse_logic_and(tokens, cur)} |-> logic_or_loop(tokens, left)])

parse_expression(tokens, cur) == parse_logic_or(tokens, cur)

(***************************************************************************)
(* The statement parser (parser.c).  The parser state p is                 *)
(*   cur       state->current_token                                        *)
(*   hi        the highest index of the token array read so far            *)
(*             (observation)                                               *)
(*   faulted   whether strdup or strcmp was handed the NULL value of a     *)
(*             layout token                                                *)
(*   iters     every iteration of the loops of parse_block, of the class   *)
(*             body and of the switch body, with current_token before and  *)
(*             after it (observation)                                      *)
(* What lies behind the EOF token is not followed: it reads as EOF, and a  *)
(* parse that has read it counts as gone astray.  The texts have no        *)
(* extends, elif, else, while, for, foreach, do, break, continue, list,    *)
(* map and no brackets, and the branches for them are left out.            *)
(***************************************************************************)
PS(node, p) == [node |-> node, p |-> p]
StartParser == [cur |-> 0, hi |-> 0, faulted |-> FALSE, iters |-> <<>>]

\* tokens[i] is read
read(p, i) == [p EXCEPT !.hi = IF i > @ THEN i ELSE @]

\* advance
advance(p) == [read(p, p.cur) EXCEPT !.cur = @ + 1]

\* match
match(tokens, p, type) ==
    IF peek(tokens, p.cur).type = type THEN advance(p) ELSE read(p, p.cur)

\* add_child: a NULL child is not added
add_child(parent, child) ==
    IF child = NullNode THEN parent ELSE [parent EXCEPT !.children = Append(@, child)]

\* strdup(value)
strdup_value(p, value) == [p EXCEPT !.faulted = @ \/ value = NUL]

Keyword(t, word) == t.type = "TOKEN_KEYWORD" /\ t.value = word

\* parse_expression from the statement parser: it ends with a peek at the
\* token it stops at
expression(tokens, p) ==
    Let([r \in {parse_expression(tokens, p.cur)} |->
        PS(r.node, read([p EXCEPT !.cur = r.cur], r.cur))])

\* an iteration of a statement loop, observed
iteration(loop, before, p) ==
    [p EXCEPT !.iters = Append(@, [loop |-> loop, before |-> before.cur, after |-> p.cur])]

RECURSIVE parse_statement(_, _)

\* parse_block: the loop
RECURSIVE block_loop(_, _, _)
block_loop(tokens, p, block) ==
    LET t == peek(tokens, p.cur)
    IN IF t.type \in {"TOKEN_DEDENT", "TOKEN_EOF"} THEN PS(block, read(p, p.cur))
       ELSE IF t.type = "TOKEN_NEWLINE"
       THEN block_loop(tokens, iteration("parse_block", p, advance(p)), block)
       ELSE Let([stmt \in {parse_statement(tokens, p)} |->
               IF stmt.node # NullNode
               THEN block_loop(tokens, iteration("parse_block", p, stmt.p),
                               add_child(block, stmt.node))
               ELSE block_loop(tokens, iteration("parse_block", p, advance(stmt.p)),
                               block)])

parse_block(tokens, p) ==
    Let([b \in {block_loop(tokens,
                    match(tokens, match(tokens, match(tokens, p, "TOKEN_COLON"),
                                        "TOKEN_NEWLINE"), "TOKEN_INDENT"),
                    Block(<<>>, peek(tokens, p.cur).line_num))} |->
        PS(b.node, match(tokens, b.p, "TOKEN_DEDENT"))])

\* parse_function_definition: do { ... } while (match(TOKEN_COMMA))
RECURSIVE parameters(_, _, _)
parameters(tokens, p, func) ==
    LET typed == peek(tokens, p.cur + 1).type = "TOKEN_IDENTIFIER"
        p1 == IF typed THEN advance(read(p, p.cur + 1)) ELSE read(p, p.cur + 1)
        arg_name == peek(tokens, p1.cur)
        p2 == advance(p1)
        added == IF arg_name.value = NUL THEN func
                 ELSE [func EXCEPT !.args = Append(@, arg_name.value)]
    IN IF peek(tokens, p2.cur).type = "TOKEN_COMMA"
       THEN parameters(tokens, advance(p2), added)
       ELSE PS(added, read(p2, p2.cur))

parse_function_definition(tokens, p) ==
    LET p1 == read(advance(p), p.cur + 2)
        p2 == IF peek(tokens, p.cur + 2).type = "TOKEN_LPAREN" THEN p1 ELSE advance(p1)
        name == peek(tokens, p2.cur)
        p3 == match(tokens, advance(p2), "TOKEN_LPAREN")
        func == Node("AST_FUNC_DEF", name.value, 0, <<>>, <<>>, name.line_num)
    IN Let([a \in {IF peek(tokens, p3.cur).type # "TOKEN_RPAREN"
                   THEN parameters(tokens, p3, func) ELSE PS(func, read(p3, p3.cur))} |->
       Let([body \in {parse_block(tokens, match(tokens, a.p, "TOKEN_RPAREN"))} |->
           PS(add_child(a.node, body.node), body.p)])])

\* parse_statement, class: the loop of the class body
RECURSIVE class_loop(_, _, _)
class_loop(tokens, p, class_node) ==
    LET t == peek(tokens, p.cur)
    IN IF t.type \in {"TOKEN_DEDENT", "TOKEN_EOF"} THEN PS(class_node, read(p, p.cur))
       ELSE IF t.type = "TOKEN_NEWLINE" \/ Keyword(t, "pass")
       THEN class_loop(tokens, iteration("class", p, advance(p)), class_node)
       ELSE IF Keyword(t, "define")
       THEN Let([method \in {parse_function_definition(tokens, p)} |->
                class_loop(tokens, iteration("class", p, method.p),
                           add_child(class_node, method.node))])
       ELSE LET p1 == strdup_value(advance(p), t.value)
                field_name == peek(tokens, p1.cur)
            IN class_loop(tokens, iteration("class", p, advance(p1)),
                   add_child(class_node,
                       [Node("AST_FIELD_DECL", field_name.value, 0, <<>>, <<>>,
                             field_name.line_num) EXCEPT !.type_name = <<t.value>>]))

\* parse_statement, class
class_definition(tokens, p) ==
    LET name == peek(tokens, p.cur + 1)
        p1 == advance(advance(p))
        class_node == Node("AST_CLASS_DEF", name.value, 0, <<>>, <<>>, name.line_num)
    IN IF peek(tokens, p1.cur).type = "TOKEN_COLON"
       THEN Let([body \in {class_loop(tokens,
                               match(tokens, match(tokens, match(tokens, p1, "TOKEN_COLON"),
                                                   "TOKEN_NEWLINE"), "TOKEN_INDENT"),
                               class_node)} |->
                PS(body.node, match(tokens, body.p, "TOKEN_DEDENT"))])
       ELSE PS(class_node, read(p1, p1.cur))

\* parse_statement, switch: the loop of the switch body
RECURSIVE switch_loop(_, _, _)
switch_loop(tokens, p, switch_node) ==
    LET t == peek(tokens, p.cur)
    IN IF t.type \in {"TOKEN_DEDENT", "TOKEN_EOF"} THEN PS(switch_node, read(p, p.cur))
       ELSE IF Keyword(t, "case")
       THEN Let([expr \in {expression(tokens, advance(p))} |->
            Let([block \in {parse_block(tokens, expr.p)} |->
                switch_loop(tokens, iteration("switch", p, block.p),
                    add_child(switch_node,
                        add_child(add_child(Node("AST_CASE", "", 0, <<>>, <<>>, t.line_num),
                                            expr.node), block.node)))])])
       ELSE IF Keyword(t, "default")
       THEN Let([block \in {parse_block(tokens, advance(p))} |->
                switch_loop(tokens, iteration("switch", p, block.p),
                    add_child(switch_node,
                        add_child(Node("AST_DEFAULT", "", 0, <<>>, <<>>, t.line_num),
                                  block.node)))])
       ELSE switch_loop(tokens, iteration("switch", p, advance(p)), switch_node)

\* parse_statement, switch
switch_statement(tokens, p) ==
    Let([expr \in {expression(tokens, match(tokens, advance(p), "TOKEN_LPAREN"))} |->
    Let([body \in {switch_loop(tokens,
                       match(tokens, match(tokens, match(tokens,
                           match(tokens, expr.p, "TOKEN_RPAREN"),
                           "TOKEN_COLON"), "TOKEN_NEWLINE"), "TOKEN_INDENT"),
                       add_child(Node("AST_SWITCH", "", 0, <<>>, <<>>,
                                      peek(tokens, p.cur).line_num), expr.node))} |->
        PS(body.node, match(tokens, body.p, "TOKEN_DEDENT"))])])

\* parse_statement, print: the expressions between the parentheses
print_statement(tokens, p) ==
    LET p1 == match(tokens, advance(p), "TOKEN_LPAREN")
        node == PrintS(<<>>, peek(tokens, p.cur).line_num)
    IN IF peek(tokens, p1.cur).type # "TOKEN_RPAREN"
       THEN Let([a \in {arguments(tokens, node, p1.cur)} |->
                PS([node EXCEPT !.children =
                       SelectSeq(a.node.children, LAMBDA c : c # NullNode)],
                   match(tokens, read([p1 EXCEPT !.cur = a.cur], a.cur), "TOKEN_RPAREN"))])
       ELSE PS(node, match(tokens, p1, "TOKEN_RPAREN"))

\* parse_statement, a declaration: `=` and the initialiser, or for a
\* user-defined type a reference to the type
declaration(tokens, p, type_name, implicit) ==
    LET name == peek(tokens, p.cur)
        node == [Node("AST_VAR_DECL", name.value, 0, <<>>, <<>>, name.line_num)
                    EXCEPT !.type_name = <<type_name.value>>]
        p1 == advance(p)
    IN IF peek(tokens, p1.cur).type = "TOKEN_ASSIGN"
       THEN Let([init \in {expression(tokens, advance(p1))} |->
                PS(add_child(node, init.node), init.p)])
       ELSE PS(IF implicit
               THEN add_child(node, Var(type_name.value, type_name.line_num))
               ELSE node,
               read(p1, p1.cur))

\* parse_statement, the last branch: an expression, or an assignment
expression_statement(tokens, p) ==
    Let([expr \in {expression(tokens, p)} |->
        IF expr.node = NullNode THEN PS(NullNode, advance(expr.p))
        ELSE IF peek(tokens, expr.p.cur).type = "TOKEN_ASSIGN"
        THEN Let([right \in {expression(tokens, advance(expr.p))} |->
                 PS(add_child(add_child(Node("AST_ASSIGNMENT", "", 0, <<>>, <<>>,
                                             expr.node.line), expr.node), right.node),
                    right.p)])
        ELSE expr])

parse_statement(tokens, p) ==
    LET t == peek(tokens, p.cur)
    IN CASE Keyword(t, "class") -> class_definition(tokens, p)
         [] Keyword(t, "define") -> parse_function_definition(tokens, p)
         [] Keyword(t, "print") -> print_statement(tokens, p)
         [] t.type = "TOKEN_IMPORT" ->
              PS(Import(peek(tokens, p.cur + 1).value, peek(tokens, p.cur + 1).line_num),
                 advance(advance(p)))
         [] Keyword(t, "int") -> declaration(tokens, advance(p), t, FALSE)
         [] t.type = "TOKEN_IDENTIFIER"
            /\ peek(tokens, p.cur + 1).type = "TOKEN_IDENTIFIER" ->
              declaration(tokens, advance(p), t, TRUE)
         [] Keyword(t, "if") ->
              Let([cond \in {expression(tokens, advance(p))} |->
              Let([block \in {parse_block(tokens, cond.p)} |->
                  PS(add_child(add_child(Node("AST_IF", "", 0, <<>>, <<>>, t.line_num),
                                         cond.node), block.node),
                     read(block.p, block.p.cur))])])
         [] Keyword(t, "switch") -> switch_statement(tokens, p)
         [] Keyword(t, "return") ->
              Let([expr \in {expression(tokens, advance(p))} |->
                  PS(add_child(Node("AST_RETURN", "", 0, <<>>, <<>>, t.line_num),
                               expr.node), expr.p)])
         [] Keyword(t, "pass") -> PS(Block(<<>>, t.line_num), advance(p))
         [] OTHER -> expression_statement(tokens, p)

\* the token the tokenizer makes of an operator
OperatorToken(op) ==
    Token(CASE op = "^" -> "TOKEN_CARET" [] op = "*" -> "TOKEN_STAR"
            [] op = "/" -> "TOKEN_SLASH" [] op = "%" -> "TOKEN_PERCENT"
            [] op = "+" -> "TOKEN_PLUS" [] op = "-" -> "TOKEN_MINUS"
            [] op = ">" -> "TOKEN_GT" [] op = "<" -> "TOKEN_LT"
            [] op = ">=" -> "TOKEN_GTE" [] op = "<=" -> "TOKEN_LTE"
            [] op = "==" -> "TOKEN_EQ" [] op = "!=" -> "TOKEN_NEQ"
            [] op = "!" -> "TOKEN_BANG" [] op = "." -> "TOKEN_DOT"
            [] op = "(" -> "TOKEN_LPAREN" [] op = ")" -> "TOKEN_RPAREN"
            [] op \in {"and", "or"} -> "TOKEN_KEYWORD",
          op, 1)

(***************************************************************************)
(* The texts parse_program is run on: up to MaxLines lines, each a number  *)
(* of blanks and words with one blank between them, the last one with or   *)
(* without its '\n'; and the tokens tokenize makes of them.                *)
(***************************************************************************)
\* the most lines of a text
MaxLines == 3

LineWords ==
    {<<"class">>, <<"class", "x", ":">>, <<"define">>,
     <<"define", "x", "(", ")", ":">>, <<"if", "x", ":">>, <<"if", "x", ":", ")">>,
     <<")">>, <<"x", "=", "1">>, <<"pass">>, <<"switch", "(", "x", ")", ":">>,
     <<"case", "1", ":">>, <<"import">>, <<"int", "x">>}

ProgramTexts ==
    UNION {{lines \in [1..n -> [indent : 0..(MaxLines - 1), words : LineWords]] :
               \A k \in 1..n : lines[k].indent < k} : n \in 1..MaxLines}

\* the token of a word
StatementToken(w, ln) ==
    CASE w \in {"class", "define", "if", "pass", "switch", "case", "int"} ->
            Token("TOKEN_KEYWORD", w, ln)
      [] w = "import" -> Token("TOKEN_IMPORT", w, ln)
      [] w = "x" -> Token("TOKEN_IDENTIFIER", w, ln)
      [] w = "1" -> Token("TOKEN_NUMBER", w, ln)
      [] w = ":" -> Token("TOKEN_COLON", w, ln)
      [] w = "=" -> Token("TOKEN_ASSIGN", w, ln)
      [] OTHER -> [OperatorToken(w) EXCEPT !.line_num = ln]

\* while (spaces < indent_stack[indent_level]) indent_level--
RECURSIVE popped(_, _)
popped(stack, spaces) ==
    IF spaces < stack[Len(stack)] THEN popped(SubSeq(stack, 1, Len(stack) - 1), spaces)
    ELSE stack

\* the tokens of line k and of the lines after it, then a DEDENT for every
\* level still open and EOF
RECURSIVE line_tokens(_, _, _, _)
line_tokens(lines, k, stack, newline_at_end) ==
    IF k > Len(lines)
    THEN LET ln == IF newline_at_end THEN Len(lines) + 1 ELSE Len(lines)
         IN [j \in 1..(Len(stack) - 1) |-> Token("TOKEN_DEDENT", NUL, ln)]
            \o <<Token("TOKEN_EOF", NUL, ln)>>
    ELSE LET spaces == lines[k].indent
             deeper == spaces > stack[Len(stack)]
             after == IF deeper THEN Append(stack, spaces) ELSE popped(stack, spaces)
         IN (IF deeper THEN <<Token("TOKEN_INDENT", NUL, k)>>
             ELSE [j \in 1..(Len(stack) - Len(after)) |-> Token("TOKEN_DEDENT", NUL, k)])
            \o [j \in DOMAIN lines[k].words |-> StatementToken(lines[k].words[j], k)]
            \o (IF k < Len(lines) \/ newline_at_end
                THEN <<Token("TOKEN_NEWLINE", NUL, k)>> ELSE <<>>)
            \o line_tokens(lines, k + 1, after, newline_at_end)

BinaryOperators ==
    {"or", "and", "==", "!=", ">", "<", ">=", "<=", "+", "-", "*", "/", "%", "^"}

\* what may stand before and after one operand of an expression drawn
Prefixes == {<<>>, <<"-">>, <<"!", "-">>}
Postfixes == {<<>>, <<".", "f">>, <<".", "f", "(", ")">>}

OperandToken(kind, k) ==
    IF kind = "TOKEN_NUMBER"
    THEN Token(kind, <<"2", "3", "4", "5">>[k], 1)
    ELSE Token(kind, <<"a", "b", "c", "d">>[k], 1)

\* the token of a word of a prefix or a postfix
WordToken(w) == IF w = "f" THEN Token("TOKEN_IDENTIFIER", w, 1) ELSE OperatorToken(w)

\* the tokens of operand k, the operator after it, and the rest: the operand
\* at `where` stands between pre and post
RECURSIVE Expression(_, _, _, _, _, _)
Expression(ops, kind, where, pre, post, k) ==
    (IF k = where
     THEN [j \in DOMAIN pre |-> WordToken(pre[j])] \o <<OperandToken(kind, k)>>
          \o [j \in DOMAIN post |-> WordToken(post[j])]
     ELSE <<OperandToken(kind, k)>>)
    \o (IF k > Len(ops) THEN <<EOFToken>>
        ELSE <<OperatorToken(ops[k])>> \o Expression(ops, kind, where, pre, post, k + 1))

Expressions ==
    {Expression(ops, kind, where, pre, post, 1) :
        ops \in UNION {[1..n -> BinaryOperators] : n \in 0..MaxOps},
        kind \in {"TOKEN_NUMBER", "TOKEN_IDENTIFIER"},
        where \in 1..(MaxOps + 1), pre \in Prefixes, post \in Postfixes}

\* no parse under way
NoParser == [tokens |-> <<>>, parsed |-> FALSE, expr |-> P(NullNode, 0)]

(***************************************************************************)
(* The state machine.  interpret() registers the natives and then runs     *)
(* the top-level statements one after the other; main() ends with          *)
(* free_all_objects().                                                     *)
(***************************************************************************)
\* no REPL: the statics of repl.c as they are initialised
NoRepl ==
    [phase |-> "off", inputs |-> <<>>, next |-> 1, error_reporter |-> "default_report_error",
     current_code_buffer |-> 0, code_buffer_size |-> 0,
     current_tokenizer_state |-> 0, current_ast_root |-> 0,
     freed_asts |-> [k \in {} |-> 0], freed_tokens |-> [k \in {} |-> 0],
     turns |-> <<>>, recoveries |-> <<>>]

VARIABLES prog, pc, st, done, tk, ps, rp
vars == <<prog, pc, st, done, tk, ps, rp>>

Programs ==
    {ClosureProgram(k, shadow) : k \in 1..2, shadow \in BOOLEAN}
    \cup {ClassProgram(style, 5, parent) : style \in {"body", "after"}, parent \in {"", "Q"}}
    \cup {EscapeProgram(kind) : kind \in {"break", "continue"}}
    \cup {ReturnProgram(kind, at) : kind \in ReturnExprs, at \in 1..2}
    \cup {SwitchProgram(sv, k1, k2, k3, kd) :
            sv \in 1..3, k1 \in ArmKinds, k2 \in ArmKinds, k3 \in ArmKinds, kd \in ArmKinds}
    \cup UNION {{ForProgram(kind, at, n), WhileProgram(kind, at + 1, n),
                 ForeachProgram(kind, at + 1, n)} :
                   kind \in CtlKinds, at \in 0..(MaxLoopN - 1), n \in 1..MaxLoopN}
    \cup {ImportProgram(name) : name \in {"sys", "io", "math", "nosuch"}}
    \cup {AssignProgram(target, again) : target \in {"x", "w", "y", "z"}, again \in BOOLEAN}
    \cup {MapProgram(v1, key, v2) : v1 \in Literals, key \in {"a", "c"}, v2 \in Literals}
    \cup {ListProgram(n, at) : n \in 0..2, at \in -1..2}
    \cup {StringProgram(kind) : kind \in {"index", "literal", "list", "variable"}}
    \cup {FieldProgram(field, stored) :
            field \in {"n", "get"}, stored \in {"unset", "int", "void"}}
    \cup {ScopeProgram(kind) : kind \in CtlKinds}
    \cup {ModuleProgram(kind) : kind \in {"once", "twice", "native"}}

\* the programs run with a collection due
ProgramsGC ==
    {ClosureProgram(1, shadow) : shadow \in BOOLEAN}
    \cup {ClassProgram(style, 5, "") : style \in {"body", "after"}}
    \cup {ImportProgram(name) : name \in {"sys", "io"}}

\* interpret(), before its loop
InitState ==
    register_all_native_modules(register_all_native_methods(
        define_all_natives_in_env(EmptyState)))

\* the least number of dead lists that makes the next allocation collect
FullGarbage == (MinThreshold - InitState.bytes_allocated) \div SizeofList + 1

\* the least number of live lists that puts the threshold above its minimum
LiveLists == MinThreshold \div (2 * SizeofList) + 1

\* what an uninitialised pointer may hold: NULL, the address of an object,
\* an address of nothing
JunkValues == {0, 1, -1}

Init ==
    /\ prog \in Programs
    /\ pc = 1
    /\ st = InitState
    /\ done = FALSE
    /\ tk = NoTokenizer
    /\ ps = NoParser
    /\ rp = NoRepl

\* the interpreter after a run of list-literal statements whose lists are
\* dead, all of them or all but LiveLists: bytes_allocated is at most
\* MaxSlack lists short of collecting
InitGC ==
    /\ prog \in ProgramsGC
    /\ pc = 1
    /\ \E slack \in 0..MaxSlack, live \in {0, LiveLists} :
          st = [InitState EXCEPT
                   !.garbage = FullGarbage - slack - live,
                   !.live_lists = live,
                   !.bytes_allocated = @ + (FullGarbage - slack) * SizeofList]
    /\ done = FALSE
    /\ tk = NoTokenizer
    /\ ps = NoParser
    /\ rp = NoRepl

\* interpret(): exec(root->children[i], &global_env)
ExecStatement ==
    /\ ~done
    /\ ~st.halted
    /\ pc <= Len(prog.body)
    /\ \E j \in JunkValues, crash \in BOOLEAN :
          \E r \in {exec(prog.body[pc], st.global_env, TRUE,
                          [st EXCEPT !.junk = j, !.ub_crash = crash, !.iters = 0,
                                     !.files = prog.files])} :
             st' = [r.s EXCEPT !.junk = 0, !.ub_crash = FALSE]
    /\ pc' = pc + 1
    /\ UNCHANGED <<prog, done, tk, ps, rp>>

\* main(): free_all_objects() once interpret() has returned
Finish ==
    /\ ~done
    /\ ~st.halted
    /\ pc > Len(prog.body)
    /\ \E crash \in BOOLEAN :
          st' = [free_all_objects([st EXCEPT !.ub_crash = crash]) EXCEPT !.ub_crash = FALSE]
    /\ done' = TRUE
    /\ UNCHANGED <<prog, pc, tk, ps, rp>>

Next == ExecStatement \/ Finish

Spec == Init /\ [][Next]_vars
SpecGC == InitGC /\ [][Next]_vars

\* tokenize is called on a source text; no program runs
InitTokenizer ==
    /\ prog = ImportProgram("sys")
    /\ pc = 1
    /\ st = EmptyState
    /\ done = TRUE
    /\ \E source \in Sources : tk = StartTokenizer(source)
    /\ ps = NoParser
    /\ rp = NoRepl

\* while (source[i] != '\0'): one iteration, by the branch it takes
Scanning(c) == tk.phase = "scan" /\ At(tk.source, tk.i) \in c

TokComment ==
    /\ Scanning({"#"})
    /\ tk' = comment(tk)
    /\ UNCHANGED <<prog, pc, st, done, ps, rp>>

TokIndentation ==
    /\ Scanning({" ", "\t", "\r", "\n", "x"})
    /\ tk.at_line_start = 1
    /\ \E crash \in BOOLEAN : tk' = indentation(tk, crash)
    /\ UNCHANGED <<prog, pc, st, done, ps, rp>>

TokWhitespace ==
    /\ Scanning({" ", "\t", "\r"})
    /\ tk.at_line_start = 0
    /\ tk' = [tk EXCEPT !.i = @ + 1]
    /\ UNCHANGED <<prog, pc, st, done, ps, rp>>

TokNewline ==
    /\ Scanning({"\n"})
    /\ tk.at_line_start = 0
    /\ tk' = newline(tk)
    /\ UNCHANGED <<prog, pc, st, done, ps, rp>>

TokIdentifier ==
    /\ Scanning({"x"})
    /\ tk.at_line_start = 0
    /\ tk' = identifier(tk)
    /\ UNCHANGED <<prog, pc, st, done, ps, rp>>

\* the loop ends at the terminator
TokEnd ==
    /\ Scanning({NUL})
    /\ tk' = finish(tk)
    /\ UNCHANGED <<prog, pc, st, done, ps, rp>>

NextTokenizer ==
    TokComment \/ TokIndentation \/ TokWhitespace \/ TokNewline \/ TokIdentifier \/ TokEnd

SpecTokenizer == InitTokenizer /\ [][NextTokenizer]_vars

\* parse_expression is called at the first token of an expression
InitParser ==
    /\ prog = ImportProgram("sys")
    /\ pc = 1
    /\ st = EmptyState
    /\ done = TRUE
    /\ tk = NoTokenizer
    /\ \E tokens \in Expressions : ps = [tokens |-> tokens, parsed |-> FALSE, expr |-> P(NullNode, 0)]
    /\ rp = NoRepl

ParseExpression ==
    /\ ~ps.parsed
    /\ ps.tokens # <<>>
    /\ ps' = [ps EXCEPT !.parsed = TRUE, !.expr = parse_expression(ps.tokens, 0)]
    /\ UNCHANGED <<prog, pc, st, done, tk, rp>>

NextParser == ParseExpression

SpecParser == InitParser /\ [][NextParser]_vars

(***************************************************************************)
(* parse_program, one iteration of its loop at a time.                     *)
(*   phase     "parsing" in the loop; "done" when it has returned the      *)
(*             root; "crashed" and "astray" when it has read what lies     *)
(*             behind the EOF token, or handed a NULL value to strdup,     *)
(*             and the process has faulted or gone on over what is there   *)
(*   steps     current_token before and after every iteration of the loop  *)
(*             (observation)                                               *)
(***************************************************************************)
InitProgram ==
    /\ prog = ImportProgram("sys")
    /\ pc = 1
    /\ st = EmptyState
    /\ done = TRUE
    /\ tk = NoTokenizer
    /\ \E lines \in ProgramTexts, newline_at_end \in BOOLEAN :
          ps = [tokens |-> line_tokens(lines, 1, <<0>>, newline_at_end),
                phase |-> "parsing", p |-> StartParser,
                root |-> Node("AST_PROGRAM", "root", 0, <<>>, <<>>, 0), steps |-> <<>>]
    /\ rp = NoRepl

\* the parse has left what tokenize made, or leaves it with the next peek
Astray == ps.p.faulted \/ ps.p.hi >= Len(ps.tokens) \/ ps.p.cur >= Len(ps.tokens)

step(before, p) == Append(ps.steps, [before |-> before.cur, after |-> p.cur])

\* if (peek(state).type == TOKEN_NEWLINE) { advance(state); continue; }
ProgramNewline ==
    /\ ps.phase = "parsing" /\ ~Astray
    /\ peek(ps.tokens, ps.p.cur).type = "TOKEN_NEWLINE"
    /\ ps' = [ps EXCEPT !.p = advance(ps.p), !.steps = step(ps.p, advance(ps.p))]
    /\ UNCHANGED <<prog, pc, st, done, tk, rp>>

\* stmt = parse_statement(state); if (stmt) add_child(root, stmt);
ProgramStatement ==
    /\ ps.phase = "parsing" /\ ~Astray
    /\ peek(ps.tokens, ps.p.cur).type \notin {"TOKEN_NEWLINE", "TOKEN_EOF"}
    /\ \E stmt \in {parse_statement(ps.tokens, ps.p)} :
          ps' = [ps EXCEPT !.p = stmt.p, !.root = add_child(@, stmt.node),
                           !.steps = step(ps.p, stmt.p)]
    /\ UNCHANGED <<prog, pc, st, done, tk, rp>>

\* while (peek(state).type != TOKEN_EOF) ends; return root
ProgramEnd ==
    /\ ps.phase = "parsing" /\ ~Astray
    /\ peek(ps.tokens, ps.p.cur).type = "TOKEN_EOF"
    /\ ps' = [ps EXCEPT !.phase = "done", !.p = read(ps.p, ps.p.cur)]
    /\ UNCHANGED <<prog, pc, st, done, tk, rp>>

\* the parse goes on behind the end of the tokens, or with a NULL value:
\* the process faults, or runs on over what the memory holds
ProgramAstray ==
    /\ ps.phase = "parsing" /\ Astray
    /\ \E fault \in BOOLEAN :
          ps' = [ps EXCEPT !.phase = IF fault THEN "crashed" ELSE "astray",
                           !.p = read(ps.p, ps.p.cur)]
    /\ UNCHANGED <<prog, pc, st, done, tk, rp>>

NextProgram == ProgramNewline \/ ProgramStatement \/ ProgramEnd \/ ProgramAstray

SpecProgram == InitProgram /\ [][NextProgram]_vars

(***************************************************************************)
(* The REPL (repl.c) and the end of main (main.c).  An input is the text   *)
(* of one turn at the prompt, given by its length and the statements       *)
(* parse_program makes of it.  Trees and token arrays are named by the     *)
(* number of their input, 0 for those of the script of `pith -i file`.     *)
(*   phase     "start" before start_repl; "prompt" at the head of the      *)
(*             loop; "read" with the input accumulated; "jumped" after     *)
(*             longjmp(repl_error_jmp); "exited" after the loop; "dead"    *)
(*             when the process has crashed                                *)
(*   next      the number of the input fgets gives next                    *)
(*   error_reporter  the reporter report_error calls                       *)
(*   freed_asts, freed_tokens  what free_ast and free_tokens were given,   *)
(*             by number of calls                                          *)
(*   turns     for every input executed, what was bound globally before    *)
(*             and after it and how it ended (observation)                 *)
(*   recoveries  what each pass of the recovery branch found and left      *)
(*             (observation)                                               *)
(***************************************************************************)
\* the most inputs of a session
MaxInputs == 3

Input(size, children) == [size |-> size, children |-> children]

\* int a = 1 | define f(): return 5 | print(f()) | f() | print(zz) | a |
\* define g(): return 6, then print(zz)
Inputs ==
    {Input(10, <<VarDecl("int", "a", Lit(1, 1), 1)>>),
     Input(27, <<FuncDef("f", <<>>, <<Return(Lit(5, 2), 2)>>, 1)>>),
     Input(11, <<PrintS(<<Call(Var("f", 1), <<>>, 1)>>, 1)>>),
     Input(4, <<Call(Var("f", 1), <<>>, 1)>>),
     Input(10, <<PrintS(<<Var("zz", 1)>>, 1)>>),
     Input(2, <<Var("a", 1)>>),
     Input(37, <<FuncDef("g", <<>>, <<Return(Lit(6, 2), 2)>>, 1),
                 PrintS(<<Var("zz", 3)>>, 3)>>)}

Sessions == UNION {[1..n -> Inputs] : n \in 1..MaxInputs}

\* the script of `pith -i file`: define f(): return 5
Script == Program("script", <<FuncDef("f", <<>>, <<Return(Lit(5, 2), 2)>>, 1)>>,
                  <<>>, 0, 0)
\* no script: `pith` or `pith -i`
NoScript == Program("repl", <<>>, <<>>, 0, 0)

\* is_expression_node
is_expression_node(type) ==
    type \in {"AST_INT_LITERAL", "AST_FLOAT_LITERAL", "AST_STRING_LITERAL",
              "AST_BOOL_LITERAL", "AST_VAR_REF", "AST_BINARY_OP", "AST_UNARY_OP",
              "AST_FUNC_CALL", "AST_NEW_EXPR", "AST_FIELD_ACCESS", "AST_INDEX_ACCESS",
              "AST_LIST_LITERAL", "AST_HASHMAP_LITERAL"}

\* every node of the trees of a sequence of nodes
RECURSIVE Subtree(_)
Subtree(nodes) ==
    UNION {{nodes[i]} \cup Subtree(nodes[i].children) : i \in DOMAIN nodes}

\* free_ast(root): the nodes of the tree are freed; the functions whose body
\* is one of them now refer to freed memory
free_ast(s, children) ==
    [s EXCEPT !.body_freed =
        @ \cup {id \in DOMAIN s.heap :
                  /\ s.heap[id].type = "OBJ_FUNC"
                  /\ s.heap[id].body \in Subtree(children)}]

\* one more call of free() on what is numbered k
Freed(frees, k) ==
    [j \in DOMAIN frees \cup {k} |-> IF j = k THEN (IF k \in DOMAIN frees THEN frees[k] ELSE 0) + 1
                                     ELSE frees[j]]

\* the body of the loop of start_repl from the tokenizing on: a single
\* expression is evaluated and its value printed unless it is void, anything
\* else is run by exec_module on &global_env
repl_execute(s, root) ==
    IF Len(root) = 1 /\ is_expression_node(root[1].type)
    THEN Let([r \in {eval(root[1], s.global_env, s)} |->
            IF r.s.halted \/ r.v.type = "VAL_VOID" THEN r.s
            ELSE [r.s EXCEPT !.output = Append(@,
                     [line |-> 0, text |-> print_value(r.s.heap, r.v), vals |-> <<r.v>>])]])
    ELSE exec_module(root, 1, s.global_env, TRUE, s).s

\* a reporter that jumps back without freeing anything
repl_report_error_NoCleanup(r, s) == [r |-> [r EXCEPT !.phase = "jumped"], s |-> s]

\* repl_report_error, after printing: the token array and the tree that are
\* current are freed and forgotten; longjmp
repl_report_error(r, s) ==
    [r |-> [r EXCEPT
               !.freed_tokens = IF r.current_tokenizer_state # 0
                                THEN Freed(@, r.current_tokenizer_state) ELSE @,
               !.freed_asts = IF r.current_ast_root # 0
                              THEN Freed(@, r.current_ast_root) ELSE @,
               !.current_tokenizer_state = 0,
               !.current_ast_root = 0,
               !.phase = "jumped"],
     s |-> IF r.current_ast_root # 0
           THEN free_ast(s, r.inputs[r.current_ast_root].children) ELSE s]

\* `pith`, `pith -i`, and `pith -i file` where interpret() is at its loop
InitRepl ==
    /\ \E script \in BOOLEAN, inputs \in Sessions :
          /\ prog = IF script THEN Script ELSE NoScript
          /\ st = IF script THEN InitState ELSE EmptyState
          /\ rp = [NoRepl EXCEPT !.phase = "start", !.inputs = inputs]
    /\ pc = 1
    /\ done = FALSE
    /\ tk = NoTokenizer
    /\ ps = NoParser

\* main after interpret(): free_tokens, free_ast(ast_root); then
\* start_repl up to its loop
StartRepl ==
    /\ rp.phase = "start" /\ ~st.halted /\ pc > Len(prog.body)
    /\ \E s \in {IF prog.family = "script" THEN free_ast(st, prog.body) ELSE st} :
          st' = IF s.global_env = 0
                THEN register_all_native_modules(register_all_native_methods(
                         define_all_natives_in_env(s)))
                ELSE s
    /\ rp' = [rp EXCEPT !.phase = "prompt", !.error_reporter = "repl_report_error",
                        !.freed_asts = IF prog.family = "script" THEN Freed(@, 0) ELSE @,
                        !.freed_tokens = IF prog.family = "script" THEN Freed(@, 0) ELSE @]
    /\ UNCHANGED <<prog, pc, done, tk, ps>>

\* "pith > ", fgets, and the accumulation of the input in current_code_buffer
ReplRead ==
    /\ rp.phase = "prompt" /\ rp.next <= Len(rp.inputs)
    /\ rp' = [rp EXCEPT !.phase = "read",
                        !.current_code_buffer = rp.next,
                        !.code_buffer_size = rp.inputs[rp.next].size]
    /\ UNCHANGED <<prog, pc, st, done, tk, ps>>

\* tokenize, parse_program, the execution and the cleanup for the next
\* iteration; a reported error leaves through repl_report_error, and a
\* fault ends the process
ReplExecute ==
    /\ rp.phase = "read"
    /\ \E crash \in BOOLEAN :
          LET k == rp.next
              root == rp.inputs[k].children
              r0 == [rp EXCEPT !.current_tokenizer_state = k, !.current_ast_root = k,
                               !.next = k + 1]
              before == EnvBindings(st.heap, st.global_env)
          IN \E s \in {repl_execute([st EXCEPT !.ub_crash = crash, !.iters = 0], root)} :
                LET reported == s.halted /\ Len(s.errors) > Len(st.errors)
                    turn(how) == [input |-> k, before |-> before,
                                  after |-> EnvBindings(s.heap, s.global_env),
                                  how |-> how, calls |-> Len(st.calls)]
                    quiet == [s EXCEPT !.ub_crash = FALSE, !.halted = FALSE, !.held = <<>>,
                                       !.depth = 0]
                IN IF reported
                   THEN \E e \in {repl_report_error(r0, quiet)} :
                           /\ rp' = [e.r EXCEPT !.turns = Append(@, turn("error"))]
                           /\ st' = e.s
                   ELSE IF s.halted
                   THEN /\ rp' = [r0 EXCEPT !.phase = "dead",
                                            !.turns = Append(@, turn("fault"))]
                        /\ st' = [s EXCEPT !.ub_crash = FALSE]
                   ELSE /\ rp' = [r0 EXCEPT !.phase = "prompt",
                                            !.freed_tokens = Freed(@, k),
                                            !.freed_asts = Freed(@, k),
                                            !.current_tokenizer_state = 0,
                                            !.current_ast_root = 0,
                                            !.turns = Append(@, turn("done"))]
                        /\ st' = free_ast(quiet, root)
    /\ UNCHANGED <<prog, pc, done, tk, ps>>

\* if (setjmp(repl_error_jmp)): the input buffer is freed, and the loop goes
\* on at the prompt
ReplRecover ==
    /\ rp.phase = "jumped"
    /\ rp' = [rp EXCEPT !.phase = "prompt",
                        !.current_code_buffer = 0,
                        !.code_buffer_size = 0,
                        !.recoveries = Append(@,
                            [input |-> rp.next - 1,
                             tokens |-> rp.current_tokenizer_state,
                             ast |-> rp.current_ast_root,
                             bindings |-> EnvBindings(st.heap, st.global_env)])]
    /\ UNCHANGED <<prog, pc, st, done, tk, ps>>

\* the end of input: the loop is left, the input buffer is freed, and main
\* calls free_all_objects()
ReplExit ==
    /\ rp.phase = "prompt" /\ rp.next > Len(rp.inputs)
    /\ rp' = [rp EXCEPT !.phase = "exited", !.current_code_buffer = 0]
    /\ \E crash \in BOOLEAN :
          st' = [free_all_objects([st EXCEPT !.ub_crash = crash]) EXCEPT !.ub_crash = FALSE]
    /\ done' = TRUE
    /\ UNCHANGED <<prog, pc, tk, ps>>

NextRepl ==
    ExecStatement \/ StartRepl \/ ReplRead \/ ReplExecute \/ ReplRecover \/ ReplExit

SpecRepl == InitRepl /\ [][NextRepl]_vars

(***************************************************************************)
(* Properties.                                                             *)
(***************************************************************************)
Texts(s) == [i \in DOMAIN s.output |-> s.output[i].text]
Finished == pc > Len(prog.body)
Signals == {"VAL_BREAK", "VAL_CONTINUE"}
ObjectsOfType(h, ty) == {id \in DOMAIN h : h[id].type = ty}

\* everything a path of references leads to from the roots, freed or not
ReachableOrFreed(s) == Closure(s.heap, DOMAIN s.heap, Roots(s))

\* the chain n links after env
RECURSIVE EnvSkip(_, _, _)
EnvSkip(h, env, n) == IF n = 0 \/ env = 0 THEN env ELSE EnvSkip(h, h[env].next, n - 1)

\* the first n nodes of the chain env
RECURSIVE EnvFirst(_, _, _)
EnvFirst(h, env, n) ==
    IF n = 0 \/ env = 0 THEN {} ELSE {env} \cup EnvFirst(h, h[env].next, n - 1)

\* C1 (GC soundness): while the program runs, every object that a path of
\* strong references leads to from the global environment, the three native
\* registries or the temporary-root stack is on the heap list, i.e. it has
\* not been freed by sweep.
GCSoundness ==
    ~done => ReachableOrFreed(st) \subseteq SeqToSet(st.objects)

\* a collection has run and a global binding refers to a freed object
GCSoundnessCase ==
    /\ ~done /\ st.gc_count > 0
    /\ \E e \in ObjectsOfType(st.heap, "OBJ_ENV") :
          /\ e \in ReachableOrFreed(st)
          /\ ValRefs(st.heap[e].val) # {}
          /\ ~(ValRefs(st.heap[e].val) \subseteq SeqToSet(st.objects))

\* C2 (temporary-root protection): no collection frees an instance whose
\* `new` expression is still being evaluated, or a module whose member
\* table is still being built.
ConstructionProtected == ~st.construction_freed

\* C3 (closure capture): the environment of every call is the bindings of
\* `this` and of the parameters, made for the call, followed by the chain the
\* function captured where it was defined; every other name resolves in the
\* call as it does on the captured chain; and the closure returned by make()
\* adds its argument to the x of make's body, not to a global x.
ClosureCapture ==
    /\ \A i \in DOMAIN st.calls :
          LET c == st.calls[i]
              f == st.heap[c.func]
              n == c.nargs + (IF c.withThis THEN 1 ELSE 0)
              bound == SeqToSet(SubSeq(f.body.args, 1, c.nargs))
                          \cup (IF c.withThis THEN {"this"} ELSE {})
              names == {st.heap[e].name : e \in ObjectsOfType(st.heap, "OBJ_ENV")}
          IN /\ EnvSkip(st.heap, c.env, n) = f.env
             /\ f.env = c.captured
             /\ \A p \in bound :
                   EnvFind(st.heap, c.env, p) \in EnvFirst(st.heap, c.env, n)
             /\ \A name \in names \ bound :
                   EnvFind(st.heap, c.env, name) = EnvFind(st.heap, f.env, name)
    /\ (prog.family = "closure" /\ Finished /\ ~st.halted) => Texts(st) = prog.expected

\* the closure made inside make() has been called after make() returned,
\* with a global x defined in between
ClosureCaptureCase ==
    /\ prog.family = "closure" /\ Finished
    /\ Texts(st) = prog.expected
    /\ EnvFind(st.heap, st.global_env, "x") # 0
    /\ \E i \in DOMAIN st.calls :
          /\ st.heap[st.calls[i].func].name = "inner"
          /\ EnvFind(st.heap, st.calls[i].captured, "x") # 0
          /\ EnvFind(st.heap, st.calls[i].captured, "x") # EnvFind(st.heap, st.global_env, "x")

\* the children of a class node of one type
Members(node, ty) == {node.children[i] : i \in {j \in DOMAIN node.children : node.children[j].type = ty}}

\* C4 (class definition): after a class statement, the class is bound under
\* its name, every `define` of the class body is in the method map as a
\* function over that definition, capturing the scope of the statement,
\* every declared field is in the field list, and `extends P` makes the
\* class bound to P the parent.
ClassDefinition ==
    \A i \in DOMAIN st.class_decls :
        LET d == st.class_decls[i]
            cls == st.heap[d.class]
            b == EnvFind(st.heap, st.global_env, d.node.value)
            p == EnvFind(st.heap, st.global_env, d.node.parent_class_name)
        IN /\ b # 0 /\ st.heap[b].val = ObjV("VAL_CLASS", d.class)
           /\ \A m \in Members(d.node, "AST_FUNC_DEF") :
                 LET v == hashmap_get(st.heap, cls.methods, m.value)
                 IN /\ v.type = "VAL_FUNC"
                    /\ st.heap[v.obj].body = m
                    /\ st.heap[v.obj].env \in {d.scope, b}
           /\ \A f \in Members(d.node, "AST_FIELD_DECL") :
                 f.value \in SeqToSet(SubSeq(cls.fields, 1, cls.field_count))
           /\ d.node.parent_class_name # "" =>
                 /\ p # 0
                 /\ cls.parent = st.heap[p].val.obj

\* C5 (instantiation order): when `new C(args)` has been evaluated, the
\* field map held a void entry for every declared field of C before init
\* started, init (when C has one) was called exactly once with `this` the
\* instance and the parameters the arguments, and the instance is the value.
InstantiationOrder ==
    \A i \in DOMAIN st.news :
        LET n == st.news[i]
            decls == {d \in SeqToSet(st.class_decls) : d.class = n.class}
            inits == {j \in DOMAIN st.calls :
                        /\ st.calls[j].withThis
                        /\ st.calls[j].receiver = ObjV("VAL_INSTANCE", n.instance)
                        /\ st.heap[st.calls[j].func].name = "init"}
        IN /\ \A d \in decls : \A f \in Members(d.node, "AST_FIELD_DECL") :
                 \E k \in DOMAIN n.fields_at_init :
                    n.fields_at_init[k] = [key |-> f.value, value |-> VoidV]
           /\ n.has_init => Cardinality(inits) = 1
           /\ ~n.has_init => inits = {}
           /\ st.halted \/ \E e \in ObjectsOfType(st.heap, "OBJ_ENV") :
                 st.heap[e].val = ObjV("VAL_INSTANCE", n.instance)

\* the instances a step assigns a field of
Written == {st'.writes[k].instance : k \in (Len(st.writes) + 1)..Len(st'.writes)}

\* what every field of instance i reads in state s
FieldsOf(s, i) == s.heap[s.heap[i].fields].entries

\* C6 (instance field isolation): a step that assigns fields changes the
\* field map of no instance other than the ones assigned to, and the
\* assigned field then reads the assigned value.
FieldIsolation ==
    [][ /\ \A i \in ObjectsOfType(st.heap, "OBJ_INSTANCE") \ Written :
              FieldsOf(st', i) = FieldsOf(st, i)
        /\ Len(st'.writes) > Len(st.writes) =>
              LET w == st'.writes[Len(st'.writes)]
              IN hashmap_get(st'.heap, st'.heap[w.instance].fields, w.field) = w.value
      ]_vars

\* a.n = 5 has run while b, of the same class, keeps its n = 2
FieldIsolationCase ==
    \E k \in DOMAIN st.writes : \E b \in ObjectsOfType(st.heap, "OBJ_INSTANCE") :
        LET a == st.writes[k].instance
        IN /\ a # b
           /\ st.heap[a].pith_class = st.heap[b].pith_class
           /\ st.writes[k].value = IntV(5)
           /\ hashmap_get(st.heap, st.heap[a].fields, "n") = IntV(5)
           /\ hashmap_get(st.heap, st.heap[b].fields, "n") = IntV(2)

\* C7 (Break/Continue never escape): no call has returned a Break or a
\* Continue value, none is held by a variable binding, a list element, a map
\* entry or an instance field, and none has been printed.
SignalsNeverEscape ==
    /\ \A i \in DOMAIN st.rets : st.rets[i].v.type \notin Signals
    /\ \A e \in ObjectsOfType(st.heap, "OBJ_ENV") : st.heap[e].val.type \notin Signals
    /\ \A l \in ObjectsOfType(st.heap, "OBJ_LIST") :
          \A k \in 1..st.heap[l].count : st.heap[l].items[k].type \notin Signals
    /\ \A m \in ObjectsOfType(st.heap, "OBJ_MAP") :
          \A k \in DOMAIN st.heap[m].entries : st.heap[m].entries[k].value.type \notin Signals
    /\ \A i \in DOMAIN st.output :
          \A k \in DOMAIN st.output[i].vals : st.output[i].vals[k].type \notin Signals

\* C8 (return): once a return statement of a function body has its value,
\* the call ends with that value and nothing of the body runs in between.
ReturnEndsCall ==
    \A i \in DOMAIN st.trace :
        (st.trace[i].k = "returned" /\ st.trace[i].depth > 0) =>
            \/ st.halted
            \/ \E j \in (i + 1)..Len(st.trace) :
                  /\ st.trace[j].k = "ret"
                  /\ st.trace[j].depth = st.trace[i].depth
                  /\ st.trace[j].v = st.trace[i].v
                  /\ \A m \in (i + 1)..(j - 1) : st.trace[m].k \notin {"stmt", "cond"}

\* a state in which a return statement of a running call has had its value
\* and the call has ended with it
ReturnEndsCallCase ==
    \E i \in DOMAIN st.trace :
        /\ st.trace[i].k = "returned" /\ st.trace[i].depth > 0
        /\ i < Len(st.trace)
        /\ st.trace[i + 1].k = "ret" /\ st.trace[i + 1].v = st.trace[i].v

\* the switch programs: the case values, and the line each arm prints
CaseValues == <<1, 2, 2>>
ArmLine(i) == ToString(i + 5)

\* the lines printed from arm i on: each arm in turn, up to a break
RECURSIVE RunFrom(_, _)
RunFrom(arms, i) ==
    IF i > Len(arms) THEN <<>>
    ELSE <<ArmLine(i)>> \o (IF arms[i] = "break" THEN <<>> ELSE RunFrom(arms, i + 1))

\* what switch sv prints: from the first case equal to sv on, else the default
SwitchPrints(sv, arms) ==
    IF \E i \in DOMAIN CaseValues : CaseValues[i] = sv
    THEN RunFrom(arms, CHOOSE i \in DOMAIN CaseValues :
                          /\ CaseValues[i] = sv
                          /\ \A j \in 1..(i - 1) : CaseValues[j] # sv)
    ELSE <<ArmLine(Len(arms))>>

\* C9 (switch): the scrutinee is evaluated once; no arm before the first
\* matching case runs; from that case on the arms run in order up to the
\* first Break; the default runs when no case matched.
SwitchSemantics ==
    (prog.family = "switch" /\ pc > 3) =>
        /\ Len(st.calls) = 1
        /\ Texts(st) = SwitchPrints(prog.sv, prog.arms)
                         \o (IF Finished THEN <<"1">> ELSE <<>>)

\* cases 1, 2-with-break and a default, scrutinee 2: only case 2 has run
SwitchSemanticsCase ==
    /\ prog.family = "switch" /\ Finished
    /\ prog.sv = 2 /\ prog.arms[1] = "print" /\ prog.arms[2] = "break"
    /\ Texts(st) = <<"7", "1">>

\* the event after position i of the trace, if any
Follows(i, k, line) ==
    /\ i < Len(st.trace)
    /\ st.trace[i + 1].k = k
    /\ st.trace[i + 1].line = line
    /\ st.trace[i + 1].depth = st.trace[i].depth

Loops == {"AST_WHILE", "AST_FOR", "AST_FOREACH"}

\* C10 (loop control): after a body that gave Break the loop ends at once,
\* with no condition and no increment; after a body that ended normally or
\* gave Continue a for loop runs its increment, once, and then tests its
\* condition, a while or foreach loop tests its condition; any other result
\* ends the loop and is the result of the loop statement; and a for loop
\* leaves the chain as it found it, without the initializer's binding.
LoopControl ==
    \A i \in DOMAIN st.trace :
        LET e == st.trace[i]
        IN /\ (e.k = "body" /\ e.type \in Loops /\ ~st.halted) =>
                IF e.v.type = "VAL_BREAK"
                THEN Follows(i, "exit", e.line) /\ st.trace[i + 1].v = VoidV
                ELSE IF e.v.type \in {"VAL_VOID", "VAL_CONTINUE"}
                THEN IF e.type = "AST_FOR"
                     THEN /\ Follows(i, "stmt", e.line)
                          /\ st.trace[i + 1].type = "AST_ASSIGNMENT"
                          /\ Follows(i + 1, "cond", e.line)
                     ELSE Follows(i, "cond", e.line)
                ELSE Follows(i, "exit", e.line) /\ st.trace[i + 1].v = e.v
           /\ (e.k = "exit" /\ e.type = "AST_FOR") =>
                \E j \in 1..(i - 1) :
                   /\ st.trace[j].k = "enter" /\ st.trace[j].line = e.line
                   /\ st.trace[j].depth = e.depth
                   /\ st.trace[j].env = e.env
                   /\ EnvFind(st.heap, e.env, "i") = 0

\* a for loop whose body gave Continue and, later, ran to its end
LoopControlCase ==
    \E i \in DOMAIN st.trace : \E j \in DOMAIN st.trace :
        /\ st.trace[i].k = "body" /\ st.trace[i].type = "AST_FOR"
        /\ st.trace[i].v.type = "VAL_CONTINUE"
        /\ Follows(i, "stmt", st.trace[i].line)
        /\ st.trace[j].k = "exit" /\ st.trace[j].type = "AST_FOR" /\ j > i

\* an instance freed by a collection during its own construction is bound
\* to a global variable
ConstructionProtectedCase ==
    /\ st.construction_freed /\ ~done
    /\ \E e \in ObjectsOfType(st.heap, "OBJ_ENV") :
          /\ st.heap[e].val.type = "VAL_INSTANCE"
          /\ e \in SeqToSet(st.objects)
          /\ st.heap[e].val.obj \notin SeqToSet(st.objects)

\* the least element of a non-empty set of numbers
Least(S) == CHOOSE n \in S : \A m \in S : n <= m

\* the positions of the bindings named a.name on the walk of assignment a:
\* the current chain from head to tail, then the global chain
AssignWalk(a) == a.chain \o a.global_chain
AssignHits(a) == {k \in DOMAIN AssignWalk(a) : a.before[AssignWalk(a)[k]].name = a.name}

\* C11 (assignment to a bare identifier): every assignment overwrites the
\* value of the first binding of the name on the current chain, else the
\* first one on the global chain, creates no binding and changes no other
\* binding; when neither chain binds the name it reports 'Undefined
\* variable' at the target's line and changes no binding.
AssignOverwrites ==
    \A i \in DOMAIN st.assigns :
       LET a == st.assigns[i]
       IN /\ DOMAIN a.after = DOMAIN a.before
          /\ IF AssignHits(a) # {}
             THEN LET t == AssignWalk(a)[Least(AssignHits(a))]
                  IN /\ a.errors = <<>>
                     /\ a.after[t].val.type = a.value.type
                     /\ a.after[t].val.int_val = a.value.int_val
                     /\ a.after[t].val.str_val = a.value.str_val
                     /\ a.after[t].name = a.name
                     /\ \A id \in DOMAIN a.before \ {t} : a.after[id] = a.before[id]
             ELSE /\ a.errors = <<[line |-> a.line, msg |-> "Undefined variable"]>>
                  /\ a.after = a.before

\* an assignment in f has overwritten a binding of a name that the chain
\* binds more than once, and changed the value
AssignOverwritesCase ==
    \E i \in DOMAIN st.assigns :
       LET a == st.assigns[i]
       IN /\ Cardinality(AssignHits(a)) >= 2
          /\ Len(a.chain) < Len(AssignWalk(a))
          /\ a.after # a.before
          /\ a.errors = <<>>

\* C12 (field access on an instance): a read of obj.f gives the value stored
\* under f whenever the instance's field map has the key f, whatever the
\* value and whether or not the class has a method f; only without the key
\* it gives a BoundMethod of the class's method f with receiver obj; with
\* neither it reports a runtime error at the line of the access.
FieldAccess ==
    \A i \in DOMAIN st.reads :
       LET rd == st.reads[i]
       IN IF rd.present
          THEN rd.errors = <<>> /\ rd.result = rd.stored
          ELSE IF rd.method.type # "VAL_VOID"
          THEN /\ rd.errors = <<>>
               /\ rd.result.type = "VAL_BOUND_METHOD"
               /\ rd.receiver = rd.instance
               /\ rd.bound_method = rd.method
          ELSE rd.errors = <<[line |-> rd.line, msg |-> "no field or method"]>>

\* a field that holds a void value has been read
FieldAccessCase ==
    \E i \in DOMAIN st.reads :
       st.reads[i].present /\ st.reads[i].stored.type = "VAL_VOID"

\* the key/value pairs of a chain of map entries
Pairs(entries) == {<<entries[i].key, entries[i].value>> : i \in DOMAIN entries}

\* C13 (typed-map guard): on a map declared map<string,int>, every insert of
\* a value that is not an int, by an entry of the declaration's literal or
\* by m[k] = v, reports a type mismatch at the line of the insertion and
\* leaves the entries as they were; an insert of an int succeeds: the map
\* then holds the value under the key and every other entry is unchanged.
TypedMapGuard ==
    \A i \in DOMAIN st.inserts :
       LET ins == st.inserts[i]
       IN ins.value_type = "VAL_INT" =>
            IF ins.value.type # "VAL_INT"
            THEN /\ ins.errors = <<[line |-> ins.line, msg |-> "Type mismatch"]>>
                 /\ ins.after = ins.before
            ELSE /\ ins.errors = <<>>
                 /\ Pairs(ins.after) =
                       {p \in Pairs(ins.before) : p[1] # ins.key}
                       \cup {<<ins.key, ins.value>>}
                 /\ Len(ins.after) = Cardinality(Pairs(ins.after))

\* m[k] = v with a string or a bool has been refused on a map<string,int>
\* that holds entries
TypedMapGuardCase ==
    \E i \in DOMAIN st.inserts :
       LET ins == st.inserts[i]
       IN /\ ins.value_type = "VAL_INT" /\ ins.value.type # "VAL_INT"
          /\ ins.before # <<>> /\ ins.line = 2

\* count, capacity and the items in use of a list
Contents(l) == [count |-> l.count, capacity |-> l.capacity,
                items |-> SubSeq(l.items, 1, l.count)]

\* C14 (fixed-capacity lists): every append to a list declared T[n] reports
\* an error and leaves count, capacity and items unchanged; a store at an
\* index within its count succeeds and changes that item only; every list
\* has count <= capacity, in every state and after every append and store.
FixedListRejectsGrowth ==
    /\ \A i \in DOMAIN st.appends :
          LET a == st.appends[i]
          IN /\ a.after.count <= a.after.capacity
             /\ a.before.is_fixed = 1 =>
                   /\ a.errors = <<[line |-> 0, msg |-> "Cannot append to a fixed-size list."]>>
                   /\ Contents(a.after) = Contents(a.before)
    /\ \A i \in DOMAIN st.stores :
          LET w == st.stores[i]
          IN /\ w.after.count <= w.after.capacity
             /\ (w.before.is_fixed = 1 /\ w.index >= 0 /\ w.index < w.before.count) =>
                   /\ w.errors = <<>>
                   /\ w.after = [w.before EXCEPT !.items[w.index + 1] = w.item]
    /\ \A id \in ObjectsOfType(st.heap, "OBJ_LIST") :
          st.heap[id].count <= st.heap[id].capacity

\* a list declared with a size above 0 took a store within its bounds and
\* then refused an append
FixedListRejectsGrowthCase ==
    /\ \E i \in DOMAIN st.stores :
          st.stores[i].before.is_fixed = 1 /\ st.stores[i].errors = <<>>
    /\ \E i \in DOMAIN st.appends :
          /\ st.appends[i].before.is_fixed = 1 /\ st.appends[i].before.count > 0
          /\ st.appends[i].errors # <<>>

\* the value slots of the objects on the heap list that hold the string
\* buffer b: bindings, list items, map entries, bound-method receivers
Owners(s, b) ==
    {<<id, k>> \in SeqToSet(s.objects) \X (1..8) :
        /\ k \in DOMAIN OwnedValues(s.heap[id])
        /\ OwnedValues(s.heap[id])[k].type = "VAL_STRING"
        /\ OwnedValues(s.heap[id])[k].buf = b}

\* C15 (string ownership): in every state no string buffer is held by two
\* value slots of live objects, no buffer has been freed twice, and no
\* buffer that was freed is still held by a slot of a live object.
StringOwnership ==
    \A b \in DOMAIN st.str_frees :
       /\ Cardinality(Owners(st, b)) <= 1
       /\ st.str_frees[b] <= 1
       /\ st.str_frees[b] = 1 => Owners(st, b) = {}

\* the final sweep has freed the strings of a program that stored a string
\* read from a list
StringOwnershipCase ==
    /\ done /\ prog.family = "string"
    /\ \E b \in DOMAIN st.str_frees : st.str_frees[b] >= 1

\* C19: allocate_obj collects before it allocates exactly when
\* bytes_allocated is above next_gc_threshold on entry; the object it
\* allocates is not among the objects that collection walks, and is new;
\* every gc_collect leaves next_gc_threshold at the larger of twice
\* bytes_allocated and MinThreshold, and next_gc_threshold is never below
\* MinThreshold.
GCTrigger ==
    /\ \A i \in DOMAIN st.allocs :
          LET a == st.allocs[i]
          IN /\ a.collected <=> a.bytes > a.threshold
             /\ a.id > a.existing
             /\ a.collected =>
                   /\ a.collection \in DOMAIN st.collections
                   /\ a.id \notin DOMAIN st.collections[a.collection].first.marks
                   /\ a.bytes_left = st.collections[a.collection].first.bytes_allocated
             /\ ~a.collected => a.bytes_left = a.bytes
    /\ \A k \in DOMAIN st.collections :
          LET c == st.collections[k].first
          IN c.next_gc_threshold =
                IF 2 * c.bytes_allocated > MinThreshold
                THEN 2 * c.bytes_allocated ELSE MinThreshold
    /\ st.next_gc_threshold >= MinThreshold

\* an allocation collected first, and the collection left more than half of
\* MinThreshold allocated, so the threshold is twice that
GCTriggerCase ==
    \E i \in DOMAIN st.allocs :
        /\ st.allocs[i].collected
        /\ st.allocs[i].bytes > st.allocs[i].threshold
        /\ st.collections[st.allocs[i].collection].first.next_gc_threshold > MinThreshold
        /\ st.heap[st.allocs[i].id].is_marked = 0

\* C20: a second gc_collect right after a first frees no object and leaves
\* the heap list, bytes_allocated, next_gc_threshold and every mark bit as
\* the first left them.
IdempotentCollection ==
    \A k \in DOMAIN st.collections :
        LET c == st.collections[k]
        IN ~c.crashed => c.second_freed = 0 /\ c.second = c.first

\* a collection that freed objects and kept others
IdempotentCollectionCase ==
    \E k \in DOMAIN st.collections :
        LET c == st.collections[k]
        IN /\ ~c.crashed /\ c.freed # <<>>
           /\ c.first.objects # <<>>
           /\ \E id \in DOMAIN c.first.marks : id \notin SeqToSet(c.first.objects)

\* the tokens of a type among the first n
CountTokens(type, n) == Cardinality({k \in 1..n : tk.tokens[k].type = type})

\* C16 (layout balance): tokenize gives every source text a token stream;
\* no prefix of the stream has more DEDENT than INDENT tokens, and the
\* stream that ends with EOF has as many of the one as of the other.
LayoutBalance ==
    /\ tk.phase # "crashed"
    /\ \A n \in DOMAIN tk.tokens :
          tk.tokens[n].type = "TOKEN_DEDENT" =>
             CountTokens("TOKEN_DEDENT", n) <= CountTokens("TOKEN_INDENT", n)
    /\ tk.phase = "done" =>
          /\ tk.tokens[Len(tk.tokens)].type = "TOKEN_EOF"
          /\ CountTokens("TOKEN_DEDENT", Len(tk.tokens))
                = CountTokens("TOKEN_INDENT", Len(tk.tokens))

\* tokenize has crashed on the store into indent_stack[IndentStackSize],
\* after as many INDENT tokens as the array has entries above the first
LayoutBalanceCase ==
    /\ tk.phase = "crashed"
    /\ tk.indent_level = IndentStackSize
    /\ CountTokens("TOKEN_INDENT", Len(tk.tokens)) = IndentStackSize - 1
    /\ CountTokens("TOKEN_DEDENT", Len(tk.tokens)) = 0

\* the text has no "###"
NoFence(source) == \A j \in 0..(Len(source) - 1) : ~Fence(source, j)

\* the line that begins at bol is only whitespace, or whitespace and a
\* comment
BlankLine(source, bol) ==
    LET first == IndexOutside(source, bol, Blanks \cup {"\r"})
    IN At(source, first) \in {"\n", NUL, "#"}

\* C17 (blank lines carry no layout): in a text without block comments, the
\* loop of tokenize adds no INDENT, DEDENT or NEWLINE token on a line that
\* is only whitespace, or whitespace and a comment; indent_level and
\* indent_stack change only where an INDENT or DEDENT is added, so they
\* are as they were after such a line.
BlankLinesSilent ==
    (\E k \in DOMAIN tk.layout : BlankLine(tk.source, tk.layout[k].bol))
        => ~NoFence(tk.source)

\* a line of spaces and a comment has been given an INDENT and a NEWLINE
BlankLinesSilentCase ==
    /\ tk.phase = "done" /\ NoFence(tk.source)
    /\ \E k \in DOMAIN tk.layout : \E m \in DOMAIN tk.layout :
          LET bol == tk.layout[k].bol
          IN /\ tk.layout[k].type = "TOKEN_INDENT"
             /\ tk.layout[m].type = "TOKEN_NEWLINE" /\ tk.layout[m].bol = bol
             /\ At(tk.source, bol) = " "
             /\ At(tk.source, IndexOutside(tk.source, bol, Blanks)) = "#"

\* the level of an operator, loosest first
Precedence(op) ==
    CASE op = "or" -> 1 [] op = "and" -> 2
      [] op \in {"==", "!="} -> 3 [] op \in {">", "<", ">=", "<="} -> 4
      [] op \in {"+", "-"} -> 5 [] op \in {"*", "/", "%"} -> 6 [] op = "^" -> 7

\* the level of the operator at the top of an expression; a prefix operator,
\* a postfix operator and a primary expression come after the binary levels
Rank(node) ==
    CASE node.type = "AST_BINARY_OP" -> Precedence(node.value)
      [] node.type = "AST_UNARY_OP" -> Precedence("^") + 1
      [] node.type \in {"AST_FIELD_ACCESS", "AST_FUNC_CALL"} -> Precedence("^") + 2
      [] OTHER -> Precedence("^") + 3

\* the text of an expression read off its tree with no parentheses added
RECURSIVE Flatten(_)
Flatten(node) ==
    CASE node.type = "AST_BINARY_OP" ->
            Flatten(node.children[1]) \o <<node.value>> \o Flatten(node.children[2])
      [] node.type = "AST_UNARY_OP" -> <<node.value>> \o Flatten(node.children[1])
      [] node.type = "AST_FIELD_ACCESS" -> Flatten(node.children[1]) \o <<".", node.value>>
      [] node.type = "AST_FUNC_CALL" -> Flatten(node.children[1]) \o <<"(", ")">>
      [] node.type \in {"AST_VAR_REF", "AST_INT_LITERAL"} -> <<node.value>>
      [] OTHER -> <<>>

\* every operand is of a level at least that of its operator, and the right
\* operand of a binary operator of a higher one
RECURSIVE Grouped(_)
Grouped(node) ==
    /\ \A k \in DOMAIN node.children : Grouped(node.children[k])
    /\ node.type = "AST_BINARY_OP" =>
          /\ Rank(node.children[1]) >= Rank(node)
          /\ Rank(node.children[2]) > Rank(node)
    /\ node.type \in {"AST_UNARY_OP", "AST_FIELD_ACCESS", "AST_FUNC_CALL"} =>
          Rank(node.children[1]) >= Rank(node)

Values(tokens) == [k \in 1..(Len(tokens) - 1) |-> tokens[k].value]

\* C18 (precedence and associativity): parse_expression reads an expression
\* without parentheses up to its end, the tree holds its tokens in their
\* order, an operator's operands are headed by operators of its level or
\* a tighter one in the order or, and, equality, comparison, additive,
\* multiplicative, power, prefix, postfix, and the right operand of a binary
\* operator by a tighter one, so that equal levels group to the left:
\* 2 + 3 * 4 is 2 + (3 * 4) and a ^ b ^ c is (a ^ b) ^ c.
PrecedenceGrouping ==
    ps.parsed =>
        /\ ps.expr.cur = Len(ps.tokens) - 1
        /\ Flatten(ps.expr.node) = Values(ps.tokens)
        /\ Grouped(ps.expr.node)
        /\ Values(ps.tokens) = <<"2", "+", "3", "*", "4">> =>
              ps.expr.node = Bin("+", Number("2", 1),
                                 Bin("*", Number("3", 1), Number("4", 1), 1), 1)
        /\ Values(ps.tokens) = <<"a", "^", "b", "^", "c">> =>
              ps.expr.node = Bin("^", Bin("^", Var("a", 1), Var("b", 1), 1),
                                 Var("c", 1), 1)

\* a ^ b ^ c has been parsed, with a ^ b as the left operand
PrecedenceGroupingCase ==
    /\ ps.parsed
    /\ Values(ps.tokens) = <<"a", "^", "b", "^", "c">>
    /\ ps.expr.node.children[1] = Bin("^", Var("a", 1), Var("b", 1), 1)

\* the entries of indent_stack in use, bottom first
IndentStack == SubSeq(tk.indent_stack, 1, tk.indent_level + 1)

\* C29 (indentation stack consistency): the entries of indent_stack in use
\* increase strictly from indent_stack[0] = 0; after the INDENT / DEDENT
\* test of a line the top entry is the line's leading width; and the test
\* adds no layout token on a line whose leading width is that of the line
\* tested before it.
IndentStackConsistency ==
    tk.phase # "crashed" =>
        /\ IndentStack[1] = 0
        /\ \A k \in 2..Len(IndentStack) : IndentStack[k - 1] < IndentStack[k]
        /\ \A k \in DOMAIN tk.steps :
              /\ tk.steps[k].top = tk.steps[k].spaces
              /\ (k > 1 /\ tk.steps[k].spaces = tk.steps[k - 1].spaces)
                    => tk.steps[k].added = 0

\* a line dedented to a width that no open level has is followed by a line
\* of the same width, and that line is given an INDENT
IndentStackConsistencyCase ==
    /\ tk.phase = "done"
    /\ \E k \in DOMAIN tk.steps :
          /\ k > 1
          /\ tk.steps[k].spaces = tk.steps[k - 1].spaces
          /\ tk.steps[k - 1].top < tk.steps[k - 1].spaces
          /\ tk.steps[k].added = 1
          /\ \E m \in DOMAIN tk.layout :
                /\ tk.layout[m].type = "TOKEN_INDENT"
                /\ tk.layout[m].bol = tk.steps[k].bol

\* C30 (allocation accounting): after every allocate_obj and gc_collect,
\* and after free_all_objects, bytes_allocated is the sum of the sizes
\* with which the objects on the heap list were allocated, never below 0,
\* and no object on the list is marked; after free_all_objects the list is
\* empty and bytes_allocated is 0, whatever was reachable.
AllocationAccounting ==
    /\ \A i \in DOMAIN st.allocs : st.allocs[i].id = i /\ st.allocs[i].accounted
    /\ \A k \in DOMAIN st.collections :
          LET c == st.collections[k]
          IN ~c.crashed => c.first.accounted /\ c.first.bytes_allocated >= 0
    /\ Accounted(st)
    /\ st.bytes_allocated >= 0
    /\ done => st.objects = <<>> /\ st.garbage + st.live_lists = 0
                /\ st.bytes_allocated = 0

\* free_all_objects has run after a collection that kept objects of which
\* it freed some and kept others, on a heap with reachable lists
AllocationAccountingCase ==
    /\ done /\ ~st.halted
    /\ st.last_freed # <<>>
    /\ \E k \in DOMAIN st.collections :
          LET c == st.collections[k]
          IN /\ ~c.crashed /\ c.freed # <<>> /\ c.first.objects # <<>>
             /\ c.first.live_lists > 0
             /\ \E i \in DOMAIN st.allocs : st.allocs[i].collection = k

\* the classes whose method map has func as the value of an entry
ClassesWithMethod(func) ==
    {c \in DOMAIN st.heap :
        /\ st.heap[c].type = "OBJ_CLASS" /\ st.heap[c].methods # 0
        /\ \E e \in DOMAIN st.heap[st.heap[c].methods].entries :
              st.heap[st.heap[c].methods].entries[e].value = ObjV("VAL_FUNC", func)}

\* C24 (function definitions outside a class body): every
\* function-definition statement that exec runs (no statement of a class
\* body is one) leaves the function bound under its name at the head of
\* the current scope, and in the method map of no class.
FuncDefBindsInScope ==
    \A i \in DOMAIN st.func_decls :
        LET d == st.func_decls[i]
        IN /\ d.head # 0
           /\ st.heap[d.head].name = d.node.value
           /\ st.heap[d.head].val = ObjV("VAL_FUNC", d.func)
           /\ ClassesWithMethod(d.func) = {}

\* a function defined by the statement right after a class statement is in
\* the method map of that class and bound nowhere in the global scope,
\* and a function defined after another kind of statement is bound
FuncDefBindsInScopeCase ==
    /\ \E i \in DOMAIN st.func_decls :
          LET d == st.func_decls[i]
          IN /\ ClassesWithMethod(d.func) # {}
             /\ EnvFind(st.heap, st.global_env, d.node.value) = 0
             /\ \E k \in DOMAIN st.class_decls :
                   /\ st.class_decls[k].class \in ClassesWithMethod(d.func)
                   /\ d.node \notin Members(st.class_decls[k].node, "AST_FUNC_DEF")
    /\ ~st.halted

\* C25 (block scoping): a variable declaration puts a new binding of the
\* name at the head of the current chain, in front of every older binding
\* of the name; exec_block leaves *env_ptr as it was on entry, whatever
\* result ends the block, so the bindings the block made are not on the
\* caller's chain afterwards and a lookup finds the binding they shadowed.
BlockScoping ==
    /\ \A k \in DOMAIN st.decls :
          LET d == st.decls[k]
          IN d.after # d.before =>
                /\ st.heap[d.after].name = d.name
                /\ st.heap[d.after].next = d.before
                /\ EnvFind(st.heap, d.after, d.name) = d.after
    /\ \A k \in DOMAIN st.decls : st.decls[k].after = st.decls[k].before => st.halted
    /\ \A k \in DOMAIN st.blocks : st.blocks[k].left = st.blocks[k].entry
    /\ (prog.family = "scope" /\ Finished /\ ~st.halted) => Texts(st) = prog.expected

\* a block that declared a name bound outside it has ended with Continue,
\* and the statements run after it have read the outer binding
BlockScopingCase ==
    /\ prog.family = "scope" /\ Finished /\ ~st.halted
    /\ \E k \in DOMAIN st.blocks : \E j \in DOMAIN st.decls :
          LET b == st.blocks[k]
              d == st.decls[j]
          IN /\ b.v = "VAL_CONTINUE"
             /\ b.inner = d.after /\ b.inner # b.entry
             /\ EnvFind(st.heap, b.entry, d.name) \notin {0, d.after}
             /\ EnvFind(st.heap, b.left, d.name) = EnvFind(st.heap, b.entry, d.name)
    /\ Texts(st) = <<"1", "2", "1", "2", "1">>

\* the names of a sequence of bindings or of map entries
BoundNames(bindings) == {bindings[i].name : i \in DOMAIN bindings}

\* the value of the first binding of name, i.e. what env_get returns
Lookup(bindings, name) ==
    bindings[CHOOSE i \in DOMAIN bindings :
                /\ bindings[i].name = name
                /\ \A j \in 1..(i - 1) : bindings[j].name # name].val

\* C26 (module members mirror the module environment): when `import name`
\* has made the module, its member map has an entry for exactly the names
\* bound on the module's chain, and the value of each entry is what a lookup
\* of the name on that chain returns: that of the newest binding.
ModuleMirrorsEnv ==
    \A k \in DOMAIN st.imports :
        LET m == st.imports[k]
        IN /\ {m.members[i].key : i \in DOMAIN m.members} = BoundNames(m.bindings)
           /\ \A i \in DOMAIN m.members :
                 m.members[i].value = Lookup(m.bindings, m.members[i].key)

\* a module whose file declares a name twice has the value of the older
\* binding as the member, and the program has printed it
ModuleMirrorsEnvCase ==
    /\ prog.family = "module" /\ Finished /\ ~st.halted
    /\ \E k \in DOMAIN st.imports :
          LET m == st.imports[k]
          IN \E i \in DOMAIN m.members : \E j \in DOMAIN m.bindings :
                /\ m.bindings[j].name = m.members[i].key
                /\ m.bindings[j].val = m.members[i].value
                /\ m.bindings[j].val = IntV(1)
                /\ Lookup(m.bindings, m.members[i].key) = IntV(2)
    /\ Texts(st) = <<"1", "2">>

\* C22 (no live call frame is collected): no collection run while a user
\* function or method is executing frees a binding on the environment chain
\* of a call that has not returned: a parameter, `this`, or a local variable
\* of its blocks.
NoLiveFrameCollected == st.frames_freed = {}

\* a collection during a call has freed the binding of the call's last
\* parameter, and with it the chain the call's later lookups walk
NoLiveFrameCollectedCase ==
    /\ st.gc_count > 0 /\ ~done
    /\ \E k \in DOMAIN st.calls :
          /\ st.calls[k].env \in st.frames_freed
          /\ st.calls[k].env \notin SeqToSet(st.objects)
          /\ st.heap[st.calls[k].env].type = "OBJ_ENV"
          /\ st.calls[k].nargs > 0

\* whether the sequence q ends with the sequence tail
EndsWith(q, tail) ==
    /\ Len(tail) <= Len(q)
    /\ SubSeq(q, Len(q) - Len(tail) + 1, Len(q)) = tail

\* after the input of the latest turn ended in a reported error
AfterError == rp.turns # <<>> /\ rp.turns[Len(rp.turns)].how = "error"

\* C21 (REPL error recovery): when a runtime error is reported while the REPL
\* executes an input, the process goes on; the token array and the tree of
\* that input have been freed once and are current no more, the next step is
\* the recovery branch, which leaves the input buffer freed and empty with
\* the loop at the prompt; and the global bindings made before the input,
\* and before the error in it, are those the next input finds.
ReplErrorRecovery ==
    /\ [](AfterError /\ rp.phase = "jumped" =>
            LET k == rp.turns[Len(rp.turns)].input
            IN /\ ~st.halted
               /\ rp.current_tokenizer_state = 0 /\ rp.current_ast_root = 0
               /\ rp.freed_tokens[k] = 1 /\ rp.freed_asts[k] = 1)
    /\ [](\A i \in DOMAIN rp.turns :
            rp.turns[i].how = "error" =>
               /\ EndsWith(rp.turns[i].after, rp.turns[i].before)
               /\ i = Len(rp.turns) => rp.phase \in {"jumped", "prompt", "read", "exited"}
               /\ i = Len(rp.turns) /\ rp.phase \in {"jumped", "prompt", "read"} =>
                     EnvBindings(st.heap, st.global_env) = rp.turns[i].after
               /\ i < Len(rp.turns) => rp.turns[i + 1].before = rp.turns[i].after)
    /\ [](AfterError /\ rp.phase = "prompt" =>
            rp.current_code_buffer = 0 /\ rp.code_buffer_size = 0)
    /\ [][rp.phase = "jumped" => rp'.phase = "prompt"]_vars

\* an input that reads a global variable runs after an input that ended in
\* an error, finds the variable bound before the error, and prints it
ReplErrorRecoveryCase ==
    \E i \in DOMAIN rp.turns :
        /\ rp.turns[i].how = "error"
        /\ \E j \in DOMAIN rp.turns[i].before : rp.turns[i].before[j].name = "a"
        /\ i < Len(rp.turns)
        /\ rp.turns[i + 1].how = "done"
        /\ rp.inputs[i + 1].children = <<Var("a", 1)>>
        /\ i + 1 = Len(rp.turns)
        /\ st.output # <<>> /\ st.output[Len(st.output)].text = "1"
        /\ Len(rp.recoveries) > 0

\* C23 (function bodies outlive the release of their tree): no user function
\* is called after free_ast has freed the tree its body is a node of, be it
\* the tree of an earlier input of the REPL or that of the script run before
\* the REPL.
BodiesOutliveAst == \A i \in DOMAIN st.calls : ~st.calls[i].body_freed

\* an input has called a function that an earlier input, or the script,
\* defined: the tree of the definition was freed before the call, which
\* found the nodes as they were and printed 5
BodiesOutliveAstCase ==
    /\ rp.phase = "prompt" /\ rp.turns # <<>>
    /\ rp.turns[Len(rp.turns)].how = "done"
    /\ \E i \in DOMAIN st.calls :
          /\ i > rp.turns[Len(rp.turns)].calls
          /\ st.calls[i].body_freed
          /\ st.heap[st.calls[i].func].name = "f"
    /\ st.output # <<>> /\ st.output[Len(st.output)].text = "5"

\* every iteration logged has consumed at least one token
Consuming(log) == \A i \in DOMAIN log : log[i].after > log[i].before

\* C27 (parser progress): parse_program comes to its end on every token
\* stream tokenize makes: it never faults and never runs on behind the EOF
\* token, every iteration of its loop and of the loops of parse_block, of
\* the class body and of the switch body consumes at least one token, and it
\* returns with current_token at the EOF token.
ParserProgress ==
    /\ ps.phase \notin {"crashed", "astray"}
    /\ Consuming(ps.steps) /\ Consuming(ps.p.iters)
    /\ ps.phase = "done" => ps.p.cur = Len(ps.tokens) - 1

\* the text `if x: )` without a newline: parse_statement skips `)` and
\* parse_block skips the EOF token after it, and the parse has not ended
ParserProgressCase ==
    /\ ps.tokens = line_tokens(<<[indent |-> 0, words |-> <<"if", "x", ":", ")">>]>>,
                               1, <<0>>, FALSE)
    /\ ps.phase \in {"crashed", "astray"}
    /\ \E i \in DOMAIN ps.p.iters :
          /\ ps.p.iters[i].loop = "parse_block"
          /\ ps.p.iters[i].before = Len(ps.tokens) - 2
          /\ ps.p.iters[i].after = Len(ps.tokens)

\* C28 (the parser stays inside the token array): every index at which peek,
\* advance or a lookahead at the next token reads is at most the index of
\* the EOF token.
ParserInBounds == ps.p.hi <= Len(ps.tokens) - 1

\* the text `class` without a newline: the class name is the EOF token, and
\* the test for `extends` reads the entry behind it
ParserInBoundsCase ==
    /\ ps.tokens = <<Token("TOKEN_KEYWORD", "class", 1), Token("TOKEN_EOF", NUL, 1)>>
    /\ ps.phase = "parsing"
    /\ ps.p.cur = 2 /\ ps.p.hi = 2
    /\ Len(ps.root.children) = 1 /\ ps.root.children[1].type = "AST_CLASS_DEF"
====
